---- MODULE Spec2Model ----
(***************************************************************************)
(* Signal extraction -> scoring -> weight adaptation pipeline of the HPCL  *)
(* lead discovery service (nlp.py, extraction.py, scoring.py,              *)
(* feedback.py, db.py, app.py).                                            *)
(*                                                                         *)
(* Representation.  A text is a sequence of words: the words of the Python *)
(* string separated by single spaces.  A keyword is a sequence of one or   *)
(* two words.  Python's `kw in text` (substring test) is KwIn below; it    *)
(* reads the per-word tables Substrings / StartsWith / EndsWith.           *)
(* A weight (a REAL with two decimals in scoring_weights) is its number of *)
(* hundredths: 1.11 is 111.                                                *)
(***************************************************************************)
EXTENDS Integers, Sequences, FiniteSets, TLC

(* ------------------------------------------------------------------ *)
(* Bounds of the model                                                *)
(* ------------------------------------------------------------------ *)
MaxWords == 2
MaxLeads == 2
MaxFeedback == 3
MaxItems == 2
MaxGroup == 71
MaxCalls == 2

(* ------------------------------------------------------------------ *)
(* Catalogues (extraction.py, nlp.py)                                 *)
(* ------------------------------------------------------------------ *)
\* Insertion order of the dict is the iteration order.
INDUSTRY_SIGNALS ==
  << [name |-> "Cement",
      keywords |-> << <<"cement">>, <<"clinker">>, <<"kiln">>, <<"grinding">>, <<"limestone">> >>],
     [name |-> "Marine",
      keywords |-> << <<"marine">>, <<"shipping">>, <<"vessel">>, <<"port">>, <<"bunker">>, <<"maritime">> >>],
     [name |-> "Construction / Roads",
      keywords |-> << <<"road">>, <<"highway">>, <<"bitumen">>, <<"asphalt">>, <<"paving">>,
                      <<"construction">>, <<"infrastructure">> >>],
     [name |-> "Power / Utilities",
      keywords |-> << <<"power">>, <<"generation">>, <<"furnace">>, <<"boiler">>,
                      <<"industrial", "fuel">>, <<"dg", "set">> >>],
     [name |-> "Refinery / Petrochemical",
      keywords |-> << <<"refinery">>, <<"petrochemical">>, <<"cracker">>, <<"lube">>,
                      <<"specialty", "product">> >>],
     [name |-> "Mining / Steel",
      keywords |-> << <<"mining">>, <<"steel">>, <<"iron">>, <<"ore">>, <<"pellet">> >>],
     [name |-> "Aviation",
      keywords |-> << <<"aviation">>, <<"atf">>, <<"airport">>, <<"jet", "fuel">> >>],
     [name |-> "General Industrial",
      keywords |-> << <<"industrial">>, <<"manufacturing">>, <<"tender">>, <<"procurement">>,
                      <<"supply">> >>] >>

PRODUCT_MAPPING ==
  ("Cement" :> <<"Petcoke", "Furnace Oil", "Industrial Fuels">>)
    @@ ("Marine" :> <<"Marine Fuel", "LSHS", "Bunker">>)
    @@ ("Construction / Roads" :> <<"Bitumen", "VGB", "Paving Grade">>)
    @@ ("Power / Utilities" :> <<"Furnace Oil", "LSHS", "Industrial Fuels">>)
    @@ ("Refinery / Petrochemical" :> <<"Specialty Products", "Lubes", "Feedstocks">>)
    @@ ("Mining / Steel" :> <<"Industrial Fuels", "Furnace Oil", "Petcoke">>)
    @@ ("Aviation" :> <<"ATF", "Jet Fuel">>)
    @@ ("General Industrial" :> <<"Industrial Fuels", "Furnace Oil", "LSHS">>)

\* A lookup that returns no product for an industry without an entry.
ProductsOrNone(industry) ==
  IF industry \in DOMAIN PRODUCT_MAPPING THEN PRODUCT_MAPPING[industry] ELSE <<>>

\* PRODUCT_MAPPING.get(best_industry, ["Industrial Fuels"])
ProductsFor(industry) ==
  IF industry \in DOMAIN PRODUCT_MAPPING THEN PRODUCT_MAPPING[industry]
  ELSE <<"Industrial Fuels">>

PROCUREMENT_SIGNALS ==
  << <<"tender">>, <<"rfp">>, <<"rfi">>, <<"contract">>, <<"procurement">>, <<"supply">>,
     <<"requirement">>, <<"expansion">>, <<"capacity">>, <<"new", "plant">>, <<"order">>,
     <<"bid">>, <<"purchase">> >>

INTENT_SIGNALS_STRONG ==
  { <<"tender">>, <<"rfp">>, <<"rfi">>, <<"contract">>, <<"procurement">>, <<"bid">>,
    <<"order">>, <<"purchase">> }

INTENT_SIGNALS_MEDIUM ==
  { <<"expansion">>, <<"capacity">>, <<"new", "plant">>, <<"supply">>, <<"requirement">>,
    <<"fuel", "supply">> }

INTENT_SIGNALS_WEAK ==
  { <<"announce">>, <<"plan">>, <<"consider">>, <<"seek">>, <<"invite">>, <<"float">> }

\* expand_text_with_synonyms: canonical term -> appended words, in dict order.
synonyms ==
  << [canonical |-> <<"marine">>, syns |-> <<"maritime", "bunker", "vessel", "shipping">>],
     [canonical |-> <<"fuel">>, syns |-> <<"fuels", "petcoke", "furnace", "bunker">>],
     [canonical |-> <<"bitumen">>, syns |-> <<"bituminous", "asphalt", "paving">>],
     [canonical |-> <<"cement">>, syns |-> <<"clinker", "kiln">>],
     [canonical |-> <<"tender">>, syns |-> <<"tenders", "rfq", "rfp", "bid">>],
     [canonical |-> <<"construction">>, syns |-> <<"infrastructure", "highway", "road">>] >>

\* extract_key_phrases: the words a phrase is scored by (whole-word membership).
signal_words ==
  { "fuel", "cement", "marine", "bitumen", "tender", "supply", "contract", "expansion",
    "industrial", "road", "construction", "shipping", "vessel", "procurement", "refinery",
    "power", "aviation", "mining", "steel", "bunkering", "vessels", "bituminous", "asphalt",
    "petcoke", "furnace", "bunker", "maritime", "highway", "paving", "lube", "ore" }

\* get_tokens: the fallback stopword list (a subset of NLTK's English list).
stop ==
  { "the", "a", "an", "and", "or", "but", "in", "on", "at", "to", "for", "of", "is", "are",
    "was", "were" }

(* ------------------------------------------------------------------ *)
(* Strings: Python's str.lower(), regex tag match, substring test     *)
(* ------------------------------------------------------------------ *)
\* The raw words texts are built from.
Vocab ==
  { "Cement", "expansion", "tender", "fuel", "supply", "Hello", "airport", "industrial",
    "<tender>" }

\* str.lower() of one word.
Lower(w) ==
  CASE w = "Cement" -> "cement"
    [] w = "Hello" -> "hello"
    [] w = "Marine" -> "marine"
    [] w = "ABC" -> "abc"
    [] w = "Ltd" -> "ltd"
    [] w = "Oceanic" -> "oceanic"
    [] w = "Shipping" -> "shipping"
    [] w = "Corp" -> "corp"
    [] w = "Acme" -> "acme"
    [] w = "We" -> "we"
    [] w = "Gulf" -> "gulf"
    [] w = "India" -> "india"
    [] OTHER -> w

\* re `<[^>]+>` matches the whole word.
IsTag(w) == w \in {"<tender>"}

\* The catalogue words that are substrings of word w (w itself when it is one).
Substrings(w) ==
  CASE w = "airport" -> {"airport", "port"}
    [] w = "<tender>" -> {"tender"}
    [] w = "tenders" -> {"tender"}
    [] w = "fuels" -> {"fuel"}
    [] w = "vessels" -> {"vessel"}
    [] OTHER -> {w}

\* The catalogue words that word w starts with / ends with.
StartsWith(w) ==
  CASE w = "fuels" -> {"fuel"}
    [] w = "tenders" -> {"tender"}
    [] w = "vessels" -> {"vessel"}
    [] w = "<tender>" -> {}
    [] OTHER -> {w}

EndsWith(w) ==
  CASE w = "airport" -> {"airport", "port"}
    [] w \in {"fuels", "tenders", "vessels", "<tender>"} -> {}
    [] OTHER -> {w}

\* `kw in text` for a text of single-space separated words.
KwIn(kw, words) ==
  IF Len(kw) = 1
  THEN \E i \in 1..Len(words) : kw[1] \in Substrings(words[i])
  ELSE \E i \in 1..(Len(words) - 1) :
          kw[1] \in EndsWith(words[i]) /\ kw[2] \in StartsWith(words[i + 1])

LowerText(words) == [i \in 1..Len(words) |-> Lower(words[i])]

Range(s) == {s[i] : i \in 1..Len(s)}

\* The element of a one-element set.
Only(S) == CHOOSE x \in S : TRUE

\* " ".join(seq of word sequences)
RECURSIVE Flatten(_)
Flatten(ss) == IF ss = <<>> THEN <<>> ELSE Head(ss) \o Flatten(Tail(ss))

(* ------------------------------------------------------------------ *)
(* nlp.py                                                             *)
(* ------------------------------------------------------------------ *)
\* Python's None passed as raw_text: a value that is no text of words.
None == <<"NoneType">>

\* clean_text: "" for a falsy or non-str value; tags become spaces, runs of
\* whitespace collapse, so a tag word disappears.
clean_text(raw) ==
  IF raw = None \/ raw = <<>> THEN <<>>
  ELSE SelectSeq(raw, LAMBDA w : ~IsTag(w))

\* get_tokens(text, remove_stopwords=True).  Every word of a cleaned text of the
\* model is alphanumeric and at least two characters long, where the NLTK
\* tokenizer and the regex fallback return the same tokens.
get_tokens(text) ==
  SelectSeq(LowerText(clean_text(text)), LAMBDA t : t \notin stop)

extract_ngrams(tokens, n) ==
  IF Len(tokens) < n THEN <<>>
  ELSE [i \in 1..(Len(tokens) - n + 1) |-> SubSeq(tokens, i, i + n - 1)]

score_phrase(p) == Cardinality(signal_words \cap Range(p))

\* The loop over the sorted candidates: first occurrence kept, stop at max_phrases.
RECURSIVE TakePhrases(_, _, _)
TakePhrases(cands, out, max_phrases) ==
  IF cands = <<>> \/ Len(out) >= max_phrases THEN out
  ELSE IF Head(cands) \in Range(out)
       THEN TakePhrases(Tail(cands), out, max_phrases)
       ELSE TakePhrases(Tail(cands), Append(out, Head(cands)), max_phrases)

\* extract_key_phrases(raw_text, max_phrases): a sequence of phrases, each a
\* sequence of words.  list.sort(key=-score) is stable; a phrase has at most
\* three words, so a score is 1, 2 or 3.
extract_key_phrases(raw_text, max_phrases) ==
  LET Sorted(grams) ==
        SelectSeq(grams, LAMBDA p : score_phrase(p) = 3)
          \o SelectSeq(grams, LAMBDA p : score_phrase(p) = 2)
          \o SelectSeq(grams, LAMBDA p : score_phrase(p) = 1)
      Phrases(tokens) ==
        IF Len(tokens) < 2 THEN <<>>
        ELSE TakePhrases(Sorted(extract_ngrams(tokens, 2) \o extract_ngrams(tokens, 3)),
                         <<>>, max_phrases)
  IN Only({ Phrases(tokens) : tokens \in {get_tokens(clean_text(raw_text))} })

\* extract_entities(raw_text)["orgs"]: spaCy's ORG entities, {} when spaCy or
\* its model is missing.  ner is the set of words the installed model labels
\* ORG ({} when there is none); cached tells whether extract_entities._nlp is
\* already set: the model is loaded on the first call and used in that call.
\* An extract_entities whose first call loads the model without applying it.
EntitiesOnceCached(raw_text, ner, cached) ==
  IF cached THEN Range(clean_text(raw_text)) \cap ner ELSE {}

extract_entities(raw_text, ner, cached) == Range(clean_text(raw_text)) \cap ner

\* An intent score that counts the strong signals alone.
StrongIntentOnly(raw_text) ==
  LET Score(text) == 25 * Cardinality({w \in INTENT_SIGNALS_STRONG : KwIn(w, text)})
  IN Only({ IF text = <<>> THEN 0 ELSE IF Score(text) > 100 THEN 100 ELSE Score(text) :
              text \in {LowerText(clean_text(raw_text))} })

procurement_intent_score(raw_text) ==
  LET Score(text) ==
        25 * Cardinality({w \in INTENT_SIGNALS_STRONG : KwIn(w, text)})
          + 12 * Cardinality({w \in INTENT_SIGNALS_MEDIUM : KwIn(w, text)})
          + 5 * Cardinality({w \in INTENT_SIGNALS_WEAK : KwIn(w, text)})
      Capped(text, score) ==
        IF text = <<>> THEN 0
        ELSE IF score > 100 THEN 100 ELSE score
  IN Only({ Capped(text, Score(text)) : text \in {LowerText(clean_text(raw_text))} })

\* extractive_summary: a text of the model has no sentence punctuation and is
\* shorter than max_length, so its one sentence is the summary.
extractive_summary(raw_text) == clean_text(raw_text)

expand_text_with_synonyms(text) ==
  LET Extra(lower) == SelectSeq(synonyms, LAMBDA e : KwIn(e.canonical, lower))
      Joined(hit) == Flatten([i \in 1..Len(hit) |-> hit[i].syns])
  IN Only({ t \o Joined(Extra(lower)) : t \in {text}, lower \in {LowerText(text)} })

summarize_for_scoring(raw_text, ner, cached) ==
  [ key_phrases |-> extract_key_phrases(raw_text, 12),
    entities |-> extract_entities(raw_text, ner, cached),
    procurement_intent_score |-> procurement_intent_score(raw_text),
    summary |-> extractive_summary(raw_text) ]

(* ------------------------------------------------------------------ *)
(* extraction.py                                                      *)
(* ------------------------------------------------------------------ *)
\* Number of the industry's keywords present in the text.
Hits(keywords, text) ==
  Cardinality({i \in 1..Len(keywords) : KwIn(keywords[i], text)})

\* A loop in which an equal count replaces the best as well.
RECURSIVE BestSpecificLast(_, _, _, _)
BestSpecificLast(i, text, best_industry, best_score) ==
  IF i > Len(INDUSTRY_SIGNALS) THEN best_industry
  ELSE IF INDUSTRY_SIGNALS[i].name = "General Industrial"
       THEN BestSpecificLast(i + 1, text, best_industry, best_score)
       ELSE LET score == Hits(INDUSTRY_SIGNALS[i].keywords, text)
            IN IF score >= best_score /\ score > 0
               THEN BestSpecificLast(i + 1, text, INDUSTRY_SIGNALS[i].name, score)
               ELSE BestSpecificLast(i + 1, text, best_industry, best_score)

\* The loop `for industry in specific`: a strictly greater count replaces the best.
RECURSIVE BestSpecific(_, _, _, _)
BestSpecific(i, text, best_industry, best_score) ==
  IF i > Len(INDUSTRY_SIGNALS) THEN best_industry
  ELSE IF INDUSTRY_SIGNALS[i].name = "General Industrial"
       THEN BestSpecific(i + 1, text, best_industry, best_score)
       ELSE LET score == Hits(INDUSTRY_SIGNALS[i].keywords, text)
            IN IF score > best_score
               THEN BestSpecific(i + 1, text, INDUSTRY_SIGNALS[i].name, score)
               ELSE BestSpecific(i + 1, text, best_industry, best_score)

GeneralKeywords ==
  (CHOOSE e \in Range(INDUSTRY_SIGNALS) : e.name = "General Industrial").keywords

\* The text detect_industry matches against: cleaned, lowered, synonym-expanded,
\* then the key phrases appended.
\* The matched text without the key phrases.
DetectTextNoPhrases(raw_text) ==
  expand_text_with_synonyms(LowerText(clean_text(raw_text)))

DetectText(raw_text) ==
  expand_text_with_synonyms(LowerText(clean_text(raw_text)))
     \o Flatten(extract_key_phrases(raw_text, 10))

\* A detection that tries General Industrial before the specific verticals.
DetectGeneralFirst(raw_text) ==
  LET Best(text) ==
        IF Hits(GeneralKeywords, text) > 0 THEN "General Industrial"
        ELSE BestSpecific(1, text, "Unknown", 0)
  IN Only({ [industry |-> best_industry, products |-> ProductsFor(best_industry)] :
              best_industry \in { Best(text) : text \in {DetectText(raw_text)} } })

detect_industry(raw_text) ==
  LET Best(text, specific) ==
        IF specific = "Unknown" /\ Hits(GeneralKeywords, text) > 0
        THEN "General Industrial" ELSE specific
  IN Only({ [industry |-> best_industry, products |-> ProductsFor(best_industry)] :
              best_industry \in
                { Best(text, BestSpecific(1, text, "Unknown", 0)) :
                    text \in {DetectText(raw_text)} } })

\* extract_requirement_clues: procurement clues, then one clue per industry (its
\* first keyword present), then up to 6 key phrases; the first 14 are kept.
extract_requirement_clues(raw_text) ==
  LET FirstKw(e, text) ==
        e.keywords[CHOOSE i \in 1..Len(e.keywords) :
                      /\ KwIn(e.keywords[i], text)
                      /\ \A j \in 1..(i - 1) : ~KwIn(e.keywords[j], text)]
      Clues(text, sigs, inds, phrases) ==
        [i \in 1..Len(sigs) |-> <<"Procurement signal", sigs[i]>>]
          \o [i \in 1..Len(inds) |->
                 <<"Industry signal", inds[i].name, FirstKw(inds[i], text)>>]
          \o [i \in 1..Len(phrases) |-> <<"Phrase", phrases[i]>>]
      AllClues(text) ==
        Clues(text,
              SelectSeq(PROCUREMENT_SIGNALS, LAMBDA sig : KwIn(sig, text)),
              SelectSeq(INDUSTRY_SIGNALS, LAMBDA e : Hits(e.keywords, text) > 0),
              extract_key_phrases(raw_text, 6))
  IN Only({ SubSeq(clues, 1, IF Len(clues) < 14 THEN Len(clues) ELSE 14) :
              clues \in { AllClues(text) : text \in {LowerText(clean_text(raw_text))} } })

(* ------------------------------------------------------------------ *)
(* scoring.py                                                         *)
(* ------------------------------------------------------------------ *)
HIGH_PRIORITY_THRESHOLD_DEFAULT == 75
MEDIUM_PRIORITY_THRESHOLD_DEFAULT == 50

\* " ".join(kw): the signal's name inside a weight key.
SigName(kw) == IF Len(kw) = 1 THEN kw[1] ELSE kw[1] \o " " \o kw[2]

SignalKey(sig) == "signal_" \o SigName(sig)

\* A write key built from the lowered industry name.
IndustryKeyLower(industry) == "industry_" \o Lower(industry)

\* feedback.py line 52: the key the adapter writes a group's weight under.
IndustryKey(industry) == "industry_" \o industry

\* scoring.py line 83: the key the scorer reads the industry weight under.
ScorerIndustryKey(industry) == "industry_" \o industry

\* A lookup whose default is 0.
WeightGetOrZero(weights, key) == IF key \in DOMAIN weights THEN weights[key] ELSE 0

\* weights.get(key, 1.0), in hundredths.
WeightGet(weights, key) == IF key \in DOMAIN weights THEN weights[key] ELSE 100

\* A bonus divided by the weight.
BonusDivided(base, k) == (base * 100) \div k

\* int(base * w) for the float w = k/100: truncation of the IEEE-754 double
\* product.  For base in {15, 20, 25, 30} and 0.85 <= w <= 1.20 the product
\* truncates to base*k \div 100 except for 25 * 1.16 = 28.999999999999996.
Bonus(base, k) ==
  IF base = 25 /\ k = 116 THEN 28 ELSE (base * k) \div 100

_nlp_boost(nlp_summary) ==
  LET boost == (IF Len(nlp_summary.key_phrases) >= 2 THEN 3 ELSE 0)
               + (IF nlp_summary.entities # {} THEN 2 ELSE 0)
  IN IF boost > 5 THEN 5 ELSE boost

\* Index of the last procurement signal present in the text, 0 when none is.
LastSignal(text) ==
  IF \E i \in 1..Len(PROCUREMENT_SIGNALS) : KwIn(PROCUREMENT_SIGNALS[i], text)
  THEN CHOOSE i \in 1..Len(PROCUREMENT_SIGNALS) :
          /\ KwIn(PROCUREMENT_SIGNALS[i], text)
          /\ \A j \in (i + 1)..Len(PROCUREMENT_SIGNALS) : ~KwIn(PROCUREMENT_SIGNALS[j], text)
  ELSE 0

\* Index of the first procurement signal present in the text, 0 when none is.
FirstSignal(text) ==
  IF \E i \in 1..Len(PROCUREMENT_SIGNALS) : KwIn(PROCUREMENT_SIGNALS[i], text)
  THEN CHOOSE i \in 1..Len(PROCUREMENT_SIGNALS) :
          /\ KwIn(PROCUREMENT_SIGNALS[i], text)
          /\ \A j \in 1..(i - 1) : ~KwIn(PROCUREMENT_SIGNALS[j], text)
  ELSE 0

ExpansionHit(text) ==
  KwIn(<<"expansion">>, text) \/ KwIn(<<"new", "plant">>, text) \/ KwIn(<<"capacity">>, text)

TenderHit(text) ==
  KwIn(<<"tender">>, text) \/ KwIn(<<"rfp">>, text) \/ KwIn(<<"contract">>, text)

\* What analyze_and_score derives from the text alone, before any weight is
\* applied: the first procurement signal (0: none), the two trigger tests, the
\* detected industry and its products, the clues, the NLP boost, the intent
\* score and the summary.
TextFeatures(raw_text, ner, cached) ==
  LET Features(text, nlp_summary, detected) ==
        [ first_signal |-> FirstSignal(text),
          expansion |-> ExpansionHit(text),
          tender |-> TenderHit(text),
          industry |-> detected.industry,
          products |-> detected.products,
          requirement_clues |-> extract_requirement_clues(raw_text),
          boost |-> _nlp_boost(nlp_summary),
          intent_score |-> nlp_summary.procurement_intent_score,
          summary |-> nlp_summary.summary ]
  IN Only({ Features(text, nlp_summary, detected) :
              text \in {LowerText(raw_text)},
              nlp_summary \in {summarize_for_scoring(raw_text, ner, cached)},
              detected \in {detect_industry(raw_text)} })

RECURSIVE SeqsUpTo(_, _)
SeqsUpTo(S, n) ==
  IF n = 0 THEN {<<>>}
  ELSE LET shorter == SeqsUpTo(S, n - 1)
       IN shorter \cup {Append(t, w) : t \in shorter, w \in S}

\* The texts of the specification's scenarios and of app.seed_leads, a text
\* whose only catalogue words are weak intent signals, and a text with two
\* General Industrial keywords and one keyword of a specific vertical, and a
\* text in which a stopword separates the two words of a keyword.
ScenarioTexts ==
  { <<"Cement", "expansion", "tender", "fuel", "supply">>,
    <<"Hello", "world">>,
    <<"We", "plan", "to", "seek", "partners">>,
    <<"industrial", "supply", "airport">>,
    <<"petcoke", "dg", "the", "set">>,
    <<"Marine", "fuel", "contract", "shipping", "vessels">> }

Texts == SeqsUpTo(Vocab, MaxWords) \cup ScenarioTexts

\* Environments: no spaCy model, or a model that labels "Cement" an ORG.
NerChoices == { {}, {"Cement"} }

\* TextFeatures over the texts and environments of the model, computed once.
FeatureTable ==
  { [raw_text |-> t, ner |-> n, cached |-> c, features |-> TextFeatures(t, n, c)] :
      t \in Texts, n \in NerChoices, c \in BOOLEAN }

FeaturesOf(raw_text, ner, cached) ==
  (CHOOSE e \in FeatureTable :
      e.raw_text = raw_text /\ e.ner = ner /\ e.cached = cached).features

\* The four weighted bonuses (lines 69-84).
ProcurementBonus(f, weights) ==
  IF f.first_signal = 0 THEN 0
  ELSE Bonus(15, WeightGet(weights, SignalKey(PROCUREMENT_SIGNALS[f.first_signal])))

ExpansionBonus(f, weights) ==
  IF f.expansion THEN Bonus(25, WeightGet(weights, "signal_expansion")) ELSE 0

TenderBonus(f, weights) ==
  IF f.tender THEN Bonus(20, WeightGet(weights, "signal_tender")) ELSE 0

\* An industry bonus awarded to "Unknown" as well.
IndustryBonusAlways(f, weights) ==
  Bonus(30, WeightGet(weights, ScorerIndustryKey(f.industry)))

\* An industry bonus awarded whenever the store holds a weight for the industry.
IndustryBonusOfStored(f, weights) ==
  IF f.industry # "Unknown" \/ ScorerIndustryKey(f.industry) \in DOMAIN weights
  THEN Bonus(30, WeightGet(weights, ScorerIndustryKey(f.industry)))
  ELSE 0

IndustryBonus(f, weights) ==
  IF f.industry # "Unknown" THEN Bonus(30, WeightGet(weights, ScorerIndustryKey(f.industry))) ELSE 0

\* The accumulated score before `score = min(100, score)` (lines 64-87).
ScoreSum(f, weights) ==
  ProcurementBonus(f, weights) + ExpansionBonus(f, weights) + TenderBonus(f, weights)
    + IndustryBonus(f, weights) + f.boost + (f.intent_score \div 10)

ScoreTotal(raw_text, weights, ner, cached) ==
  ScoreSum(FeaturesOf(raw_text, ner, cached), weights)

\* The total left as accumulated.
ScoreUnclamped(total) == total

\* score = min(100, score)
ClampScore(total) == IF total > 100 THEN 100 ELSE total

ConfidenceUncapped(score) == score + 10

\* confidence = min(95, score + 10)
Confidence(score) == IF score + 10 > 95 THEN 95 ELSE score + 10

\* Thresholds compared with > in place of >=.
PriorityStrict(score, high, medium) ==
  IF score > high THEN "HIGH"
  ELSE IF score > medium THEN "MEDIUM"
  ELSE "LOW"

Priority(score, high, medium) ==
  IF score >= high THEN "HIGH"
  ELSE IF score >= medium THEN "MEDIUM"
  ELSE "LOW"

\* analyze_and_score(raw_text) for a str raw_text, with the weights _get_weights
\* returned, the thresholds of config.py and the NER model of the environment.
analyze_and_score(raw_text, weights, high, medium, ner, cached) ==
  LET Result(f, score) ==
        [ industry |-> f.industry,
          product_recommendations |-> f.products,
          requirement_clues |-> f.requirement_clues,
          score |-> score,
          confidence |-> Confidence(score),
          priority |-> Priority(score, high, medium),
          summary |-> f.summary,
          intent_score |-> f.intent_score ]
  IN Only({ Result(f, ClampScore(ScoreSum(f, weights))) :
              f \in {FeaturesOf(raw_text, ner, cached)} })

(* ------------------------------------------------------------------ *)
(* db.py, feedback.py                                                 *)
(* ------------------------------------------------------------------ *)
Outcomes == {"New", "Assigned", "Rejected", "Converted", "Accepted"}

\* get_feedback_for_weights: lead_feedback JOIN leads ON l.id = f.lead_id.  A
\* feedback row whose lead_id names no lead has no partner and is dropped.
get_feedback_for_weights(lead_rows, feedback_rows) ==
  LET joined == SelectSeq(feedback_rows, LAMBDA f : f.lead_id \in 1..Len(lead_rows))
  IN [i \in 1..Len(joined) |->
        [industry |-> lead_rows[joined[i].lead_id].industry, outcome |-> joined[i].outcome]]

\* round(0.85 + 0.35 * (accepted / total), 2) in hundredths.  The exact value is
\* (85*total + 35*accepted) / total hundredths; Python rounds the double to the
\* nearest hundredth.  Where the exact value lies halfway (accepted/total with
\* reduced denominator 2, 10, 14 or 70) the double lies above the half for the
\* ratios of HalfAbove and below it for the others.
HalfAbove(accepted, total) ==
  \/ 10 * accepted = total
  \/ 10 * accepted = 9 * total
  \/ 14 * accepted = total
  \/ 14 * accepted = 13 * total
  \/ \E n \in {9, 11, 13, 57, 59, 61, 67} : 70 * accepted = n * total

\* A weight that moves within 0.80 .. 1.20.
AdapterWeightSteep(accepted, total) == 80 + (40 * accepted) \div total

AdapterWeight(accepted, total) ==
  LET num == 85 * total + 35 * accepted
      q == num \div total
      r == num % total
  IN IF 2 * r < total THEN q
     ELSE IF 2 * r > total THEN q + 1
     ELSE IF HalfAbove(accepted, total) THEN q + 1 ELSE q

AcceptedWithoutAssigned == {"Accepted", "Converted"}

AcceptedOutcomes == {"Assigned", "Accepted", "Converted"}

\* industry_outcomes: `r.get("industry") or "Unknown"` groups the rows.
GroupOf(row) == IF row.industry = "" THEN "Unknown" ELSE row.industry

GroupTotal(rows, industry) ==
  Cardinality({i \in 1..Len(rows) : GroupOf(rows[i]) = industry})

GroupAccepted(rows, industry) ==
  Cardinality({i \in 1..Len(rows) :
                 GroupOf(rows[i]) = industry /\ rows[i].outcome \in AcceptedOutcomes})

\* An upsert that averages the stored and the new weight.
UpsertBlend(weights, key, weight) ==
  [k \in DOMAIN weights \cup {key} |->
     IF k # key THEN weights[k]
     ELSE IF key \in DOMAIN weights THEN (weights[key] + weight) \div 2 ELSE weight]

\* The upsert of one group: INSERT .. ON CONFLICT(industry_or_product) DO UPDATE.
Upsert(weights, key, weight) ==
  [k \in DOMAIN weights \cup {key} |-> IF k = key THEN weight ELSE weights[k]]

\* The loop over industry_outcomes.items(): one upsert per group, in the order
\* the groups first appear in rows.
RECURSIVE UpsertGroups(_, _, _)
UpsertGroups(weights, rows, i) ==
  IF i > Len(rows) THEN weights
  ELSE LET industry == GroupOf(rows[i])
           seen == \E j \in 1..(i - 1) : GroupOf(rows[j]) = industry
       IN IF seen THEN UpsertGroups(weights, rows, i + 1)
          ELSE UpsertGroups(
                 Upsert(weights, IndustryKey(industry),
                        AdapterWeight(GroupAccepted(rows, industry),
                                      GroupTotal(rows, industry))),
                 rows, i + 1)

\* A recomputation that rebuilds the table from the groups of the log.
UpdateWeightsRebuilding(weights, lead_rows, feedback_rows) ==
  UpsertGroups([k \in {} |-> 100], get_feedback_for_weights(lead_rows, feedback_rows), 1)

\* _update_weights_from_feedback() with the db layer imported and readable.
_update_weights_from_feedback(weights, lead_rows, feedback_rows) ==
  UpsertGroups(weights, get_feedback_for_weights(lead_rows, feedback_rows), 1)

\* An INSERT OR REPLACE keyed by the lead: a lead's earlier event is overwritten.
RecordFeedbackReplace(feedback_rows, lead_id, outcome) ==
  IF \E i \in 1..Len(feedback_rows) : feedback_rows[i].lead_id = lead_id
  THEN [i \in 1..Len(feedback_rows) |->
          IF feedback_rows[i].lead_id = lead_id
          THEN [lead_id |-> lead_id, outcome |-> outcome] ELSE feedback_rows[i]]
  ELSE Append(feedback_rows, [lead_id |-> lead_id, outcome |-> outcome])

\* record_feedback: the INSERT into lead_feedback and the UPDATE of the lead's status.
record_feedback_log(feedback_rows, lead_id, outcome) ==
  Append(feedback_rows, [lead_id |-> lead_id, outcome |-> outcome])

\* An UPDATE that also zeroes the lead's score.
SetStatusResetScore(lead_rows, lead_id, status) ==
  [i \in 1..Len(lead_rows) |->
     IF i = lead_id THEN [lead_rows[i] EXCEPT !.status = status, !.score = 0]
     ELSE lead_rows[i]]

\* A record_feedback whose UPDATE changes no row.
SetStatusKeep(lead_rows, lead_id, status) == lead_rows

SetStatus(lead_rows, lead_id, status) ==
  [i \in 1..Len(lead_rows) |->
     IF i = lead_id THEN [lead_rows[i] EXCEPT !.status = status] ELSE lead_rows[i]]

\* update_lead_status(lead_id, status, assigned_officer_id)
update_lead_status(lead_rows, lead_id, status, officer) ==
  [i \in 1..Len(lead_rows) |->
     IF i # lead_id THEN lead_rows[i]
     ELSE IF officer # 0
          THEN [lead_rows[i] EXCEPT !.status = status, !.assigned_officer_id = officer]
          ELSE [lead_rows[i] EXCEPT !.status = status]]

(* ------------------------------------------------------------------ *)
(* entity_resolution.py                                               *)
(* ------------------------------------------------------------------ *)
\* COMPANY_SUFFIXES, in list order: each is removed once from the end of the
\* name when whitespace precedes it (re.IGNORECASE; an optional final dot is
\* part of the word).
COMPANY_SUFFIXES ==
  << {<<"pvt", "limited">>, <<"pvt.", "limited">>, <<"private", "limited">>,
      <<"pvt", "limited.">>, <<"pvt.", "limited.">>, <<"private", "limited.">>},
     {<<"ltd">>, <<"ltd.">>}, {<<"limited">>}, {<<"corp">>, <<"corp.">>},
     {<<"corporation">>, <<"corporation.">>}, {<<"inc">>, <<"inc.">>},
     {<<"incorporated">>, <<"incorporated.">>}, {<<"co">>, <<"co.">>}, {<<"india">>},
     {<<"ind">>, <<"ind.">>} >>

StripSuffix(name, suffixes) ==
  IF \E sfx \in suffixes :
        /\ Len(name) > Len(sfx)
        /\ LowerText(SubSeq(name, Len(name) - Len(sfx) + 1, Len(name))) = sfx
  THEN LET sfx == CHOOSE x \in suffixes :
                     /\ Len(name) > Len(x)
                     /\ LowerText(SubSeq(name, Len(name) - Len(x) + 1, Len(name))) = x
       IN SubSeq(name, 1, Len(name) - Len(sfx))
  ELSE name

RECURSIVE StripAll(_, _)
StripAll(name, i) ==
  IF i > Len(COMPANY_SUFFIXES) THEN name
  ELSE StripAll(StripSuffix(name, COMPANY_SUFFIXES[i]), i + 1)

normalize_company_name(name) == StripAll(name, 1)

\* canonical_key_for_dedup: f"{canonical.lower()}|{snippet[:80].lower()}".  A text
\* of the model is shorter than 80 characters.
canonical_key_for_dedup(name, raw_text_snippet) ==
  <<LowerText(normalize_company_name(name)), LowerText(raw_text_snippet)>>

(* ------------------------------------------------------------------ *)
(* Inputs of the model                                                *)
(* ------------------------------------------------------------------ *)
\* Items the sources can return to run_discovery.
DiscoveryItems ==
  { [company |-> <<"ABC", "Cement", "Ltd">>,
     raw_text |-> <<"Cement", "expansion", "tender", "fuel", "supply">>],
    [company |-> <<"Oceanic", "Shipping", "Corp">>,
     raw_text |-> <<"Marine", "fuel", "contract", "shipping", "vessels">>],
    [company |-> <<"Acme">>, raw_text |-> <<"Hello", "world">>] }

\* Every key analyze_and_score can read.
ScorerKeys ==
  {SignalKey(PROCUREMENT_SIGNALS[i]) : i \in 1..Len(PROCUREMENT_SIGNALS)}
    \cup {ScorerIndustryKey(INDUSTRY_SIGNALS[i].name) : i \in 1..Len(INDUSTRY_SIGNALS)}
    \cup {ScorerIndustryKey("Unknown")}

EmptyWeights == [k \in {} |-> 100]
AllOnes == [k \in ScorerKeys |-> 100]

\* Weights the adapter can store: 0.85 .. 1.20.
WeightValues == 85..120

Uniform(v) == [k \in ScorerKeys |-> v]

\* Stored weight tables the scorer is run against: none stored; every key at
\* 1.0, at the least and at the greatest weight; one key alone at the greatest.
WeightTables ==
  {EmptyWeights, AllOnes, Uniform(85), Uniform(120)}
    \cup {[k \in {key} |-> 120] : key \in ScorerKeys}

\* (HIGH_PRIORITY_THRESHOLD, MEDIUM_PRIORITY_THRESHOLD) as set in the environment.
ThresholdChoices ==
  { <<HIGH_PRIORITY_THRESHOLD_DEFAULT, MEDIUM_PRIORITY_THRESHOLD_DEFAULT>>,
    <<MEDIUM_PRIORITY_THRESHOLD_DEFAULT, HIGH_PRIORITY_THRESHOLD_DEFAULT>>,
    <<HIGH_PRIORITY_THRESHOLD_DEFAULT, HIGH_PRIORITY_THRESHOLD_DEFAULT>> }

(* ------------------------------------------------------------------ *)
(* State                                                              *)
(* ------------------------------------------------------------------ *)
VARIABLES
  scoring_weights,            \* table scoring_weights: key -> weight in hundredths
  leads,                      \* table leads: row id -> row
  lead_feedback,              \* table lead_feedback, in insertion order
  HIGH_PRIORITY_THRESHOLD,    \* config.HIGH_PRIORITY_THRESHOLD
  MEDIUM_PRIORITY_THRESHOLD,  \* config.MEDIUM_PRIORITY_THRESHOLD
  spacy_orgs,                 \* the words the environment's spaCy model labels ORG
  spacy_nlp,                  \* whether extract_entities._nlp is cached
  last,                       \* the last completed call, its arguments and results
  calls                       \* the calls in flight: position and local values of each

vars ==
  <<scoring_weights, leads, lead_feedback, HIGH_PRIORITY_THRESHOLD,
    MEDIUM_PRIORITY_THRESHOLD, spacy_orgs, spacy_nlp, last, calls>>

\* No call is in flight.
NoCalls == <<>>

NoCall == [op |-> "none", raw_text |-> <<>>, results |-> <<>>, lead_id |-> 0, outcome |-> ""]

\* init_db() on a fresh database: every table empty.
Init ==
  /\ scoring_weights = EmptyWeights
  /\ leads = <<>>
  /\ lead_feedback = <<>>
  /\ HIGH_PRIORITY_THRESHOLD = HIGH_PRIORITY_THRESHOLD_DEFAULT
  /\ MEDIUM_PRIORITY_THRESHOLD = MEDIUM_PRIORITY_THRESHOLD_DEFAULT
  /\ spacy_orgs \in NerChoices
  /\ spacy_nlp = FALSE
  /\ last = NoCall
  /\ calls = NoCalls

\* A database whose scoring_weights table already holds a table of weights,
\* and thresholds from the environment.
InitScore ==
  /\ scoring_weights \in WeightTables
  /\ leads = <<>>
  /\ lead_feedback = <<>>
  /\ \E choice \in ThresholdChoices :
        HIGH_PRIORITY_THRESHOLD = choice[1] /\ MEDIUM_PRIORITY_THRESHOLD = choice[2]
  /\ spacy_orgs \in NerChoices
  /\ spacy_nlp = FALSE
  /\ last = NoCall
  /\ calls = NoCalls

\* _get_weights(): the rows of scoring_weights as a dict.
_get_weights == scoring_weights

\* extract_entities caches the loaded model in extract_entities._nlp.
SpacyAfterCall == spacy_nlp \/ spacy_orgs # {}

\* A call analyze_and_score(raw_text) on a str.  last.results keeps the results
\* of the consecutive calls on the same text (the latest two).
Analyze(raw_text) ==
  LET result == analyze_and_score(raw_text, _get_weights, HIGH_PRIORITY_THRESHOLD,
                                  MEDIUM_PRIORITY_THRESHOLD, spacy_orgs, spacy_nlp)
      again == last.op = "analyze_and_score" /\ last.raw_text = raw_text
  IN /\ last' = [op |-> "analyze_and_score", raw_text |-> raw_text,
                 results |-> IF again THEN <<last.results[Len(last.results)], result>>
                             ELSE <<result>>,
                 lead_id |-> 0, outcome |-> ""]
     /\ spacy_nlp' = SpacyAfterCall
     /\ UNCHANGED <<scoring_weights, leads, lead_feedback, HIGH_PRIORITY_THRESHOLD,
                    MEDIUM_PRIORITY_THRESHOLD, spacy_orgs, calls>>

\* A fallback that scores with weight 0 for every key.
GetWeightsZero == [k \in ScorerKeys |-> 0]

\* _get_weights() when reading the store raises: `except Exception: return {}`.
GetWeightsOnError == EmptyWeights

\* A call analyze_and_score(raw_text) on a str while the scoring_weights table
\* cannot be read (get_db or the SELECT raises inside _get_weights).
AnalyzeStoreUnavailable(raw_text) ==
  LET result == analyze_and_score(raw_text, GetWeightsOnError, HIGH_PRIORITY_THRESHOLD,
                                  MEDIUM_PRIORITY_THRESHOLD, spacy_orgs, spacy_nlp)
  IN /\ last' = [op |-> "analyze_and_score, weight store unreadable",
                 raw_text |-> raw_text, results |-> <<result>>,
                 lead_id |-> 0, outcome |-> ""]
     /\ spacy_nlp' = SpacyAfterCall
     /\ UNCHANGED <<scoring_weights, leads, lead_feedback, HIGH_PRIORITY_THRESHOLD,
                    MEDIUM_PRIORITY_THRESHOLD, spacy_orgs, calls>>

\* Values of raw_text that are not a str.
NonStrings == {None}

\* A call analyze_and_score(raw_text) on a value that is not a str: line 58,
\* `text = raw_text.lower()`, raises AttributeError before anything is computed,
\* and the call returns no result.
AnalyzeNonString(raw_text) ==
  /\ raw_text \in NonStrings
  /\ last' = [op |-> "analyze_and_score raised AttributeError", raw_text |-> raw_text,
              results |-> <<>>, lead_id |-> 0, outcome |-> ""]
  /\ UNCHANGED <<scoring_weights, leads, lead_feedback, HIGH_PRIORITY_THRESHOLD,
                 MEDIUM_PRIORITY_THRESHOLD, spacy_orgs, spacy_nlp, calls>>

(* ------------------------------------------------------------------ *)
(* app.py: discovery                                                  *)
(* ------------------------------------------------------------------ *)
\* build_dossier + insert_lead: the row stored for an analysed item.
LeadRow(item, analysis) ==
  LET normalized == normalize_company_name(item.company)
  IN [ company |-> IF normalized # <<>> THEN normalized
                   ELSE IF item.company # <<>> THEN item.company ELSE <<"Unknown">>,
       raw_text |-> item.raw_text,
       industry |-> analysis.industry,
       product_recommendations |-> analysis.product_recommendations,
       score |-> analysis.score,
       confidence |-> analysis.confidence,
       priority |-> analysis.priority,
       intent_score |-> analysis.intent_score,
       status |-> "New",
       assigned_officer_id |-> 0 ]

\* The loop of run_discovery over the fetched items: rows is the leads table so
\* far, existing the keys of the leads read at the start, seen those of this run.
RECURSIVE DiscoverItems(_, _, _, _, _)
DiscoverItems(items, i, rows, existing, seen) ==
  IF i > Len(items) THEN rows
  ELSE LET item == items[i]
           key == canonical_key_for_dedup(item.company, item.raw_text)
       IN IF key \in existing \/ key \in seen
          THEN DiscoverItems(items, i + 1, rows, existing, seen)
          ELSE DiscoverItems(items, i + 1,
                 Append(rows, LeadRow(item,
                    analyze_and_score(item.raw_text, _get_weights,
                                      HIGH_PRIORITY_THRESHOLD, MEDIUM_PRIORITY_THRESHOLD,
                                      spacy_orgs, spacy_nlp))),
                 existing, seen \cup {key})

run_discovery(items) ==
  DiscoverItems(items, 1, leads,
                {canonical_key_for_dedup(leads[i].company, leads[i].raw_text) :
                   i \in 1..Len(leads)},
                {})

ItemLists == SeqsUpTo(DiscoveryItems, MaxItems) \ {<<>>}

RunDiscovery(items) ==
  /\ Len(leads) < MaxLeads
  /\ \E rows \in {run_discovery(items)} :
        /\ Len(rows) <= MaxLeads
        /\ leads' = rows
        /\ spacy_nlp' = IF Len(rows) > Len(leads) THEN SpacyAfterCall ELSE spacy_nlp
  /\ last' = [op |-> "run_discovery", raw_text |-> <<>>, results |-> <<>>,
              lead_id |-> 0, outcome |-> ""]
  /\ UNCHANGED <<scoring_weights, lead_feedback, HIGH_PRIORITY_THRESHOLD,
                 MEDIUM_PRIORITY_THRESHOLD, spacy_orgs, calls>>

(* ------------------------------------------------------------------ *)
(* feedback.py: record_lead_feedback, and the handlers of app.py      *)
(* ------------------------------------------------------------------ *)
\* record_lead_feedback(lead_id, outcome) on the leads table rows: record_feedback
\* (INSERT the event, UPDATE the lead's status), then _update_weights_from_feedback.
record_lead_feedback(rows, lead_id, outcome) ==
  /\ Len(lead_feedback) < MaxFeedback
  /\ lead_feedback' = record_feedback_log(lead_feedback, lead_id, outcome)
  /\ leads' = SetStatus(rows, lead_id, outcome)
  /\ scoring_weights' = _update_weights_from_feedback(scoring_weights, leads', lead_feedback')
  /\ last' = [op |-> "record_lead_feedback", raw_text |-> <<>>, results |-> <<>>,
              lead_id |-> lead_id, outcome |-> outcome]
  /\ UNCHANGED <<HIGH_PRIORITY_THRESHOLD, MEDIUM_PRIORITY_THRESHOLD, spacy_orgs, spacy_nlp,
                 calls>>

LeadIds == 1..MaxLeads

\* The officers of table sales_officers (seed_if_empty's default officer).
Officers == {1}

\* GET /assign/<id>: a missing lead redirects without a change.
Assign(id, officer_id) ==
  /\ id \in 1..Len(leads)
  /\ record_lead_feedback(update_lead_status(leads, id, "Assigned", officer_id),
                          id, "Assigned")

\* GET /reject/<id>
Reject(id) == record_lead_feedback(leads, id, "Rejected")

\* GET /convert/<id>
Convert(id) == record_lead_feedback(leads, id, "Converted")

\* PATCH /api/leads/<id> with a valid status; officer_id 0 is an absent
\* assigned_officer_id.
ApiUpdateLead(id, status, officer_id) ==
  /\ id \in 1..Len(leads)
  /\ status \in Outcomes
  /\ record_lead_feedback(update_lead_status(leads, id, status, officer_id), id, status)

\* POST /api/whatsapp/webhook with one button reply accept_<id>, schedule_<id>
\* or reject_<id>.
WebhookReply(kind, id) ==
  IF kind \in {"accept", "schedule"}
  THEN record_lead_feedback(update_lead_status(leads, id, "Assigned", 0), id, "Assigned")
  ELSE record_lead_feedback(leads, id, "Rejected")

Next ==
  \/ \E items \in ItemLists : RunDiscovery(items)
  \/ \E id \in LeadIds, officer_id \in Officers : Assign(id, officer_id)
  \/ \E id \in LeadIds : Reject(id)
  \/ \E id \in LeadIds : Convert(id)
  \/ \E id \in LeadIds, status \in Outcomes, officer_id \in Officers \cup {0} :
        ApiUpdateLead(id, status, officer_id)
  \/ \E kind \in {"accept", "schedule", "reject"}, id \in LeadIds : WebhookReply(kind, id)

Spec == Init /\ [][Next]_vars

(* ------------------------------------------------------------------ *)
(* app.py: discovery over items whose names carry stacked suffixes    *)
(* ------------------------------------------------------------------ *)
\* The items of DiscoveryItems, one whose company ends in two suffixes in the
\* order opposite to COMPANY_SUFFIXES ("Corp" then "India"), and one without a
\* company.
DedupItems ==
  DiscoveryItems \cup
    { [company |-> <<"Gulf", "Corp", "India">>,
       raw_text |-> <<"Marine", "fuel", "contract", "shipping", "vessels">>],
      [company |-> <<>>, raw_text |-> <<"Hello", "world">>] }

DedupItemLists == SeqsUpTo(DedupItems, MaxItems) \ {<<>>}

\* GET /discover, the sources returning any of the item lists.
NextDiscovery == \E items \in DedupItemLists : RunDiscovery(items)

SpecDiscovery == InitScore /\ [][NextDiscovery]_vars

(* ------------------------------------------------------------------ *)
(* feedback.py with its feedback source unavailable                   *)
(* ------------------------------------------------------------------ *)
\* The three ways a call of record_lead_feedback can run: the db layer imported
\* and readable; `from db import ...` failed when feedback.py was loaded (lines
\* 7-10), so get_db, record_feedback and get_feedback_for_weights are None;
\* get_feedback_for_weights() raises when the log is read (lines 27-30).
FeedbackRuns ==
  { "record_lead_feedback",
    "record_lead_feedback, db not imported",
    "record_lead_feedback, feedback log unreadable" }

FaultyRuns == FeedbackRuns \ {"record_lead_feedback"}

\* A recomputation that empties the store when its source is unavailable.
UpdateWeightsClearing(run, weights, lead_rows, feedback_rows) ==
  IF run \in FaultyRuns THEN EmptyWeights
  ELSE _update_weights_from_feedback(weights, lead_rows, feedback_rows)

\* _update_weights_from_feedback() in a run: the two early returns of lines
\* 25-30, else the recomputation.
UpdateWeightsUnder(run, weights, lead_rows, feedback_rows) ==
  IF run \in FaultyRuns THEN weights
  ELSE _update_weights_from_feedback(weights, lead_rows, feedback_rows)

\* app.seed_leads: the first two samples, stored under the company as given;
\* seed_if_empty runs it on an empty database, whose weight store is empty.
SeedSamples ==
  << [company |-> <<"ABC", "Cement", "Ltd">>,
      raw_text |-> <<"Cement", "expansion", "tender", "fuel", "supply">>],
     [company |-> <<"Oceanic", "Shipping", "Corp">>,
      raw_text |-> <<"Marine", "fuel", "contract", "shipping", "vessels">>] >>

seed_leads ==
  [i \in 1..Len(SeedSamples) |->
     [LeadRow(SeedSamples[i],
              analyze_and_score(SeedSamples[i].raw_text, EmptyWeights,
                                HIGH_PRIORITY_THRESHOLD, MEDIUM_PRIORITY_THRESHOLD,
                                spacy_orgs, spacy_nlp))
        EXCEPT !.company = SeedSamples[i].company]]

\* init_db() and seed_leads on a fresh database.
InitSeeded ==
  /\ scoring_weights = EmptyWeights
  /\ lead_feedback = <<>>
  /\ HIGH_PRIORITY_THRESHOLD = HIGH_PRIORITY_THRESHOLD_DEFAULT
  /\ MEDIUM_PRIORITY_THRESHOLD = MEDIUM_PRIORITY_THRESHOLD_DEFAULT
  /\ spacy_orgs \in NerChoices
  /\ spacy_nlp = (spacy_orgs # {})
  /\ leads = seed_leads
  /\ last = NoCall
  /\ calls = NoCalls

\* record_lead_feedback(lead_id, outcome) in a run: `if record_feedback:` skips
\* the INSERT and the UPDATE when the db layer is not imported.
RecordLeadFeedbackUnder(run, lead_id, outcome) ==
  /\ Len(lead_feedback) < MaxFeedback
  /\ lead_feedback' = IF run = "record_lead_feedback, db not imported" THEN lead_feedback
                      ELSE record_feedback_log(lead_feedback, lead_id, outcome)
  /\ leads' = IF run = "record_lead_feedback, db not imported" THEN leads
              ELSE SetStatus(leads, lead_id, outcome)
  /\ scoring_weights' = UpdateWeightsUnder(run, scoring_weights, leads', lead_feedback')
  /\ last' = [op |-> run, raw_text |-> <<>>, results |-> <<>>,
              lead_id |-> lead_id, outcome |-> outcome]
  /\ UNCHANGED <<HIGH_PRIORITY_THRESHOLD, MEDIUM_PRIORITY_THRESHOLD, spacy_orgs, spacy_nlp,
                 calls>>

\* /reject/<id> and /convert/<id> in each of the runs.
NextFaults ==
  \E run \in FeedbackRuns, id \in LeadIds, outcome \in {"Rejected", "Converted"} :
     RecordLeadFeedbackUnder(run, id, outcome)

SpecFaults == InitSeeded /\ [][NextFaults]_vars

(* ------------------------------------------------------------------ *)
(* feedback.py: the adapter on groups of many events                  *)
(* ------------------------------------------------------------------ *)
\* A feedback log of total events on lead 1, the first accepted of them
\* Converted and the others Rejected.
LogOf(accepted, total) ==
  [i \in 1..total |->
     [lead_id |-> 1, outcome |-> IF i <= accepted THEN "Converted" ELSE "Rejected"]]

\* A seeded database after total feedback events on its first lead, each
\* recorded by record_lead_feedback: the lead has the status of the last event
\* and the store the weight recomputed after it.
InitAdapter ==
  /\ HIGH_PRIORITY_THRESHOLD = HIGH_PRIORITY_THRESHOLD_DEFAULT
  /\ MEDIUM_PRIORITY_THRESHOLD = MEDIUM_PRIORITY_THRESHOLD_DEFAULT
  /\ spacy_orgs = {}
  /\ spacy_nlp = FALSE
  /\ \E total \in 0..(MaxGroup - 1) : \E accepted \in 0..total :
        /\ lead_feedback = LogOf(accepted, total)
        /\ leads = IF total = 0 THEN seed_leads
                   ELSE SetStatus(seed_leads, 1, lead_feedback[total].outcome)
  /\ scoring_weights = _update_weights_from_feedback(EmptyWeights, leads, lead_feedback)
  /\ last = NoCall
  /\ calls = NoCalls

\* One more call of record_lead_feedback (/reject/<id> or /convert/<id>).
RecordOutcome(lead_id, outcome) ==
  /\ last.op = "none"
  /\ Len(lead_feedback) < MaxGroup
  /\ lead_feedback' = record_feedback_log(lead_feedback, lead_id, outcome)
  /\ leads' = SetStatus(leads, lead_id, outcome)
  /\ scoring_weights' = _update_weights_from_feedback(scoring_weights, leads', lead_feedback')
  /\ last' = [op |-> "record_lead_feedback", raw_text |-> <<>>, results |-> <<>>,
              lead_id |-> lead_id, outcome |-> outcome]
  /\ UNCHANGED <<HIGH_PRIORITY_THRESHOLD, MEDIUM_PRIORITY_THRESHOLD, spacy_orgs, spacy_nlp,
                 calls>>

NextAdapter ==
  \E id \in LeadIds, outcome \in {"Rejected", "Converted"} : RecordOutcome(id, outcome)

SpecAdapter == InitAdapter /\ [][NextAdapter]_vars

(* ------------------------------------------------------------------ *)
(* The loop: feedback on stored leads, then scoring                   *)
(* ------------------------------------------------------------------ *)
\* Texts scored after feedback: the seeded texts, one more Cement text and one
\* of no industry.
LoopTexts ==
  { SeedSamples[i].raw_text : i \in 1..Len(SeedSamples) }
    \cup { <<"Cement", "supply">>, <<"Hello", "world">> }

\* /reject/<id>, /convert/<id> and /assign/<id> on the seeded leads, and calls
\* of analyze_and_score (a discovery run scoring a new item).
NextLoop ==
  \/ \E id \in LeadIds : Reject(id)
  \/ \E id \in LeadIds : Convert(id)
  \/ \E id \in LeadIds, officer_id \in Officers : Assign(id, officer_id)
  \/ \E raw_text \in LoopTexts : Analyze(raw_text)

SpecLoop == InitSeeded /\ [][NextLoop]_vars

(* ------------------------------------------------------------------ *)
(* Requests served concurrently (Flask serves each request in its own *)
(* thread); every `with get_db()` block is one SQLite transaction on  *)
(* a connection of its own, committed when the block exits            *)
(* ------------------------------------------------------------------ *)
CallIds == 1..MaxCalls

\* A call in flight: the handler, its position, its arguments and its locals:
\* rows (the feedback rows read), groups (the groups done in the open
\* transaction), pending (the rows written by the open transaction, not yet
\* committed) and weights (the table read by _get_weights).
NewCall(op, pc, lead_id, outcome, officer_id, raw_text) ==
  [ op |-> op, pc |-> pc, lead_id |-> lead_id, outcome |-> outcome,
    officer_id |-> officer_id, raw_text |-> raw_text,
    rows |-> <<>>, groups |-> 0, pending |-> EmptyWeights, weights |-> EmptyWeights ]

\* The distinct groups of the rows, in order of first appearance
\* (industry_outcomes is a dict filled in row order).
RECURSIVE GroupsInOrder(_, _)
GroupsInOrder(rows, i) ==
  IF i > Len(rows) THEN <<>>
  ELSE IF \E j \in 1..(i - 1) : GroupOf(rows[j]) = GroupOf(rows[i])
       THEN GroupsInOrder(rows, i + 1)
       ELSE <<GroupOf(rows[i])>> \o GroupsInOrder(rows, i + 1)

\* The table with the rows of a transaction laid over it.
Overlay(committed, pending) ==
  [k \in DOMAIN committed \cup DOMAIN pending |->
     IF k \in DOMAIN pending THEN pending[k] ELSE committed[k]]

\* A read that returns, for a key another connection is writing, a value
\* between the committed and the uncommitted one.
ReadTorn(committed, open) ==
  [k \in DOMAIN committed \cup UNION {DOMAIN pending : pending \in open} |->
     IF \E pending \in open : k \in DOMAIN pending
     THEN (WeightGet(committed, k)
             + (CHOOSE pending \in open : k \in DOMAIN pending)[k]) \div 2
     ELSE committed[k]]

\* What a SELECT on its own connection returns while the transactions in open
\* (their uncommitted rows) are in progress on other connections: the committed
\* table.
ReadCommitted(committed, open) == committed

\* The transaction of call c holds the database write lock: it has written and
\* not committed.
TxnOpen(c) == calls[c].pc = "commit" \/ (calls[c].pc = "upsert" /\ calls[c].groups > 0)

\* No other call holds the write lock (a writer waits for it).
LockFree(c) == \A d \in DOMAIN calls \ {c} : ~TxnOpen(d)

SetCall(c, call) == [d \in DOMAIN calls \cup {c} |-> IF d = c THEN call ELSE calls[d]]

EndCall(c) == [d \in DOMAIN calls \ {c} |-> calls[d]]

\* Feedback requests started so far: recorded events and calls still to record.
FeedbackStarted ==
  Len(lead_feedback)
    + Cardinality({c \in DOMAIN calls :
                     calls[c].pc \in {"update_lead_status", "record_feedback"}})

\* A request arrives: /assign/<id> (get_lead finds the lead), /reject/<id>,
\* /convert/<id>, PATCH /api/leads/<id> with a status (the lead exists), or a
\* WhatsApp button reply accept_<id> / reject_<id>.
StartRequest(c, kind, id, status) ==
  /\ c \notin DOMAIN calls
  /\ FeedbackStarted < MaxCalls
  /\ kind \in {"assign", "patch"} => id \in 1..Len(leads)
  /\ calls' = SetCall(c,
       CASE kind = "assign" -> NewCall(kind, "update_lead_status", id, "Assigned", 1, <<>>)
         [] kind = "patch" -> NewCall(kind, "update_lead_status", id, status, 0, <<>>)
         [] kind = "webhook accept" ->
              NewCall(kind, "update_lead_status", id, "Assigned", 0, <<>>)
         [] kind = "reject" -> NewCall(kind, "record_feedback", id, "Rejected", 0, <<>>)
         [] kind = "convert" -> NewCall(kind, "record_feedback", id, "Converted", 0, <<>>))
  /\ UNCHANGED <<scoring_weights, leads, lead_feedback, HIGH_PRIORITY_THRESHOLD,
                 MEDIUM_PRIORITY_THRESHOLD, spacy_orgs, spacy_nlp, last>>

\* update_lead_status(id, status, assigned_officer_id): one transaction.
StepUpdateLeadStatus(c) ==
  /\ c \in DOMAIN calls
  /\ calls[c].pc = "update_lead_status"
  /\ LockFree(c)
  /\ leads' = update_lead_status(leads, calls[c].lead_id, calls[c].outcome,
                                 calls[c].officer_id)
  /\ calls' = SetCall(c, [calls[c] EXCEPT !.pc = "record_feedback"])
  /\ UNCHANGED <<scoring_weights, lead_feedback, HIGH_PRIORITY_THRESHOLD,
                 MEDIUM_PRIORITY_THRESHOLD, spacy_orgs, spacy_nlp, last>>

\* record_feedback(lead_id, outcome): the INSERT and the UPDATE, one transaction.
StepRecordFeedback(c) ==
  /\ c \in DOMAIN calls
  /\ calls[c].pc = "record_feedback"
  /\ LockFree(c)
  /\ lead_feedback' = record_feedback_log(lead_feedback, calls[c].lead_id, calls[c].outcome)
  /\ leads' = SetStatus(leads, calls[c].lead_id, calls[c].outcome)
  /\ calls' = SetCall(c, [calls[c] EXCEPT !.pc = "get_feedback_for_weights"])
  /\ UNCHANGED <<scoring_weights, HIGH_PRIORITY_THRESHOLD, MEDIUM_PRIORITY_THRESHOLD,
                 spacy_orgs, spacy_nlp, last>>

\* rows = get_feedback_for_weights(): the SELECT of the joined log.
StepReadLog(c) ==
  /\ c \in DOMAIN calls
  /\ calls[c].pc = "get_feedback_for_weights"
  /\ calls' = SetCall(c, [calls[c] EXCEPT
                            !.pc = "upsert",
                            !.rows = get_feedback_for_weights(leads, lead_feedback)])
  /\ UNCHANGED <<scoring_weights, leads, lead_feedback, HIGH_PRIORITY_THRESHOLD,
                 MEDIUM_PRIORITY_THRESHOLD, spacy_orgs, spacy_nlp, last>>

\* One round of the loop over industry_outcomes.items(): the upsert of the next
\* group, inside the transaction opened by the first upsert.
StepUpsert(c) ==
  /\ c \in DOMAIN calls
  /\ calls[c].pc = "upsert"
  /\ LockFree(c)
  /\ LET groups == GroupsInOrder(calls[c].rows, 1)
         n == calls[c].groups + 1
     IN IF n > Len(groups)
        THEN calls' = SetCall(c, [calls[c] EXCEPT !.pc = "commit"])
        ELSE calls' = SetCall(c, [calls[c] EXCEPT
               !.groups = n,
               !.pending = Upsert(calls[c].pending, IndustryKey(groups[n]),
                                  AdapterWeight(GroupAccepted(calls[c].rows, groups[n]),
                                                GroupTotal(calls[c].rows, groups[n])))])
  /\ UNCHANGED <<scoring_weights, leads, lead_feedback, HIGH_PRIORITY_THRESHOLD,
                 MEDIUM_PRIORITY_THRESHOLD, spacy_orgs, spacy_nlp, last>>

\* conn.commit() at the exit of the with block; record_lead_feedback returns.
StepCommit(c) ==
  /\ c \in DOMAIN calls
  /\ calls[c].pc = "commit"
  /\ scoring_weights' = Overlay(scoring_weights, calls[c].pending)
  /\ last' = [op |-> "record_lead_feedback", raw_text |-> <<>>, results |-> <<>>,
              lead_id |-> calls[c].lead_id, outcome |-> calls[c].outcome]
  /\ calls' = EndCall(c)
  /\ UNCHANGED <<leads, lead_feedback, HIGH_PRIORITY_THRESHOLD, MEDIUM_PRIORITY_THRESHOLD,
                 spacy_orgs, spacy_nlp>>

\* A call analyze_and_score(raw_text) starts (one scoring call per behaviour).
StartAnalyze(c, raw_text) ==
  /\ c \notin DOMAIN calls
  /\ last.op # "analyze_and_score"
  /\ \A d \in DOMAIN calls : calls[d].op # "analyze_and_score"
  /\ calls' = SetCall(c, NewCall("analyze_and_score", "_get_weights", 0, "", 0, raw_text))
  /\ UNCHANGED <<scoring_weights, leads, lead_feedback, HIGH_PRIORITY_THRESHOLD,
                 MEDIUM_PRIORITY_THRESHOLD, spacy_orgs, spacy_nlp, last>>

\* weights = _get_weights(): the SELECT of the whole table.
StepGetWeights(c) ==
  /\ c \in DOMAIN calls
  /\ calls[c].pc = "_get_weights"
  /\ calls' = SetCall(c, [calls[c] EXCEPT
               !.pc = "score",
               !.weights = ReadCommitted(scoring_weights,
                             {calls[d].pending : d \in {e \in DOMAIN calls \ {c} : TxnOpen(e)}})])
  /\ UNCHANGED <<scoring_weights, leads, lead_feedback, HIGH_PRIORITY_THRESHOLD,
                 MEDIUM_PRIORITY_THRESHOLD, spacy_orgs, spacy_nlp, last>>

\* The rest of analyze_and_score, on the weights read.
StepScore(c) ==
  /\ c \in DOMAIN calls
  /\ calls[c].pc = "score"
  /\ last' = [op |-> "analyze_and_score", raw_text |-> calls[c].raw_text,
              results |-> <<analyze_and_score(calls[c].raw_text, calls[c].weights,
                                              HIGH_PRIORITY_THRESHOLD,
                                              MEDIUM_PRIORITY_THRESHOLD,
                                              spacy_orgs, spacy_nlp)>>,
              lead_id |-> 0, outcome |-> ""]
  /\ spacy_nlp' = SpacyAfterCall
  /\ calls' = EndCall(c)
  /\ UNCHANGED <<scoring_weights, leads, lead_feedback, HIGH_PRIORITY_THRESHOLD,
                 MEDIUM_PRIORITY_THRESHOLD, spacy_orgs>>

\* A seeded database, no spaCy model installed.
InitThreads == InitSeeded /\ spacy_orgs = {}

RequestKinds == {"assign", "patch", "webhook accept", "reject", "convert"}

\* The statuses a PATCH sets in the model: the two no other request sets.
PatchStatuses == {"New", "Accepted"}

NextThreads ==
  \/ \E c \in CallIds, kind \in RequestKinds \ {"patch"}, id \in LeadIds :
        StartRequest(c, kind, id, "")
  \/ \E c \in CallIds, id \in LeadIds, status \in PatchStatuses :
        StartRequest(c, "patch", id, status)
  \/ \E c \in CallIds : StepUpdateLeadStatus(c)
  \/ \E c \in CallIds : StepRecordFeedback(c)
  \/ \E c \in CallIds : StepReadLog(c)
  \/ \E c \in CallIds : StepUpsert(c)
  \/ \E c \in CallIds : StepCommit(c)
  \/ \E c \in CallIds : StartAnalyze(c, SeedSamples[1].raw_text)
  \/ \E c \in CallIds : StepGetWeights(c)
  \/ \E c \in CallIds : StepScore(c)

SpecThreads == InitThreads /\ [][NextThreads]_vars

(* ------------------------------------------------------------------ *)
(* services/dossier.py: the suggested sales actions                   *)
(* ------------------------------------------------------------------ *)
MaxProducts == 4

\* One line of the list: its fixed wording and the products joined into it.
ActionLine(text, products) == [text |-> text, products |-> products]

\* The whole list where the code takes a slice.
AllProducts(products) == products

\* products[:3]
FirstThree(products) == SubSeq(products, 1, IF Len(products) < 3 THEN Len(products) ELSE 3)

_suggest_actions(priority, industry, products) ==
  (IF priority = "HIGH"
   THEN << ActionLine("Contact within 24-48 hours with product sheet", <<>>),
           ActionLine("Prepare quote for primary product(s)", <<>>) >>
   ELSE IF priority = "MEDIUM"
   THEN << ActionLine("Reach out this week; share case studies", <<>>),
           ActionLine("Identify decision-maker", <<>>) >>
   ELSE << ActionLine("Add to nurture list; periodic check", <<>>) >>)
    \o << ActionLine("Highlight HPCL capability in:", FirstThree(products)) >>

\* The priorities _suggest_actions is called with: the three analyze_and_score
\* returns and two strings that are none of them.
PriorityInputs == {"HIGH", "MEDIUM", "LOW", "high", ""}

IndustryInputs == {"Cement", "Unknown"}

ProductInputs == SeqsUpTo({"Petcoke", "Furnace Oil", "LSHS", "ATF"}, MaxProducts)

\* One call _suggest_actions(priority, industry, products).
SuggestActions(priority, industry, products) ==
  /\ last.op = "none"
  /\ last' = [op |-> "_suggest_actions", raw_text |-> <<>>,
              results |-> <<[priority |-> priority, industry |-> industry,
                             products |-> products,
                             actions |-> _suggest_actions(priority, industry, products)]>>,
              lead_id |-> 0, outcome |-> ""]
  /\ UNCHANGED <<scoring_weights, leads, lead_feedback, HIGH_PRIORITY_THRESHOLD,
                 MEDIUM_PRIORITY_THRESHOLD, spacy_orgs, spacy_nlp, calls>>

NextDossier ==
  \E priority \in PriorityInputs, industry \in IndustryInputs, products \in ProductInputs :
     SuggestActions(priority, industry, products)

SpecDossier == InitThreads /\ [][NextDossier]_vars

(* ------------------------------------------------------------------ *)
(* Feedback and scoring on a database that holds a lead of no         *)
(* industry, with a weight table that is empty or holds rows written  *)
(* outside the program                                                *)
(* ------------------------------------------------------------------ *)
\* The items of the discovery run that filled the leads table: the first seed
\* sample and an item whose text names no industry.
FrameItems ==
  << SeedSamples[1], [company |-> <<"Acme">>, raw_text |-> <<"Hello", "world">>] >>

\* Rows of scoring_weights no operation of the program writes (the scorer reads
\* signal_* rows; only industry_* rows are ever written by feedback.py) and rows
\* of industries without feedback.
PreloadedWeights ==
  ("signal_tender" :> 110) @@ ("signal_expansion" :> 90)
    @@ ("industry_Aviation" :> 95) @@ ("industry_Unknown" :> 120)

StoredTables == {EmptyWeights, PreloadedWeights}

InitFrame ==
  /\ scoring_weights \in StoredTables
  /\ lead_feedback = <<>>
  /\ HIGH_PRIORITY_THRESHOLD = HIGH_PRIORITY_THRESHOLD_DEFAULT
  /\ MEDIUM_PRIORITY_THRESHOLD = MEDIUM_PRIORITY_THRESHOLD_DEFAULT
  /\ spacy_orgs = {}
  /\ spacy_nlp = FALSE
  /\ leads = DiscoverItems(FrameItems, 1, <<>>, {}, {})
  /\ last = NoCall
  /\ calls = NoCalls

SpecFrame == InitFrame /\ [][NextLoop]_vars

\* The scorer alone: one text analysed, then analysed again, against every
\* stored weight table.
NextScore ==
  \/ \E raw_text \in Texts :
        /\ last.op = "none" \/ last.raw_text = raw_text
        /\ Analyze(raw_text)
  \/ \E raw_text \in NonStrings :
        /\ last.op = "none"
        /\ AnalyzeNonString(raw_text)
  \/ \E raw_text \in Texts :
        /\ last.op = "none"
        /\ AnalyzeStoreUnavailable(raw_text)

SpecScore == InitScore /\ [][NextScore]_vars

(* ------------------------------------------------------------------ *)
(* Properties                                                         *)
(* ------------------------------------------------------------------ *)
\* The result of the last call of analyze_and_score.
LastResult == last.results[Len(last.results)]

Analysed == last.op = "analyze_and_score"

\* C1: for every input text and every weight table read from the weight store,
\* the score analyze_and_score returns satisfies 0 <= score <= 100.
C1_ScoreInRange ==
  \A i \in 1..Len(last.results) :
     0 <= last.results[i].score /\ last.results[i].score <= 100

\* A call whose accumulated total exceeds 100 and comes back as 100.
C1_Witness ==
  /\ Analysed
  /\ ScoreTotal(last.raw_text, scoring_weights, spacy_orgs, spacy_nlp) > 100
  /\ LastResult.score = 100

\* C2: in every result of analyze_and_score, confidence = min(95, score + 10):
\* score + 10 when score <= 85 and 95 otherwise.
C2_ConfidenceDerived ==
  \A i \in 1..Len(last.results) :
     last.results[i].confidence =
       IF last.results[i].score <= 85 THEN last.results[i].score + 10 ELSE 95

\* A result whose score is above 85, so that the cap of 95 decides.
C2_Witness ==
  Analysed /\ LastResult.score > 85 /\ LastResult.confidence = 95

\* C3: priority is a threshold function of the score alone: HIGH iff
\* score >= HIGH_PRIORITY_THRESHOLD, MEDIUM iff MEDIUM_PRIORITY_THRESHOLD <=
\* score < HIGH_PRIORITY_THRESHOLD, LOW otherwise; the defaults are 75 and 50.
C3_PriorityThresholds ==
  /\ HIGH_PRIORITY_THRESHOLD_DEFAULT = 75
  /\ MEDIUM_PRIORITY_THRESHOLD_DEFAULT = 50
  /\ \A i \in 1..Len(last.results) :
       LET score == last.results[i].score
           priority == last.results[i].priority
           is_high == score >= HIGH_PRIORITY_THRESHOLD
           is_medium == MEDIUM_PRIORITY_THRESHOLD <= score /\ score < HIGH_PRIORITY_THRESHOLD
       IN /\ priority \in {"HIGH", "MEDIUM", "LOW"}
          /\ (priority = "HIGH") <=> is_high
          /\ (priority = "MEDIUM") <=> is_medium
          /\ (priority = "LOW") <=> (~is_high /\ ~is_medium)

\* A score that sits exactly on the HIGH threshold.
C3_Witness ==
  /\ Analysed
  /\ LastResult.score = HIGH_PRIORITY_THRESHOLD
  /\ MEDIUM_PRIORITY_THRESHOLD < HIGH_PRIORITY_THRESHOLD
  /\ LastResult.priority = "HIGH"

\* The feedback events on the leads of an industry: the rows of lead_feedback
\* whose lead exists and has that industry.
EventsOn(industry) ==
  {i \in 1..Len(lead_feedback) :
     /\ lead_feedback[i].lead_id \in 1..Len(leads)
     /\ leads[lead_feedback[i].lead_id].industry = industry}

AcceptedOn(industry) ==
  {i \in EventsOn(industry) :
     lead_feedback[i].outcome \in {"Assigned", "Accepted", "Converted"}}

\* w hundredths is 0.85 + 0.35 * accepted/total rounded to two decimals: no
\* hundredth lies nearer to the exact value.
IsRounded(w, accepted, total) ==
  LET exact_times_total == 85 * total + 35 * accepted
      diff == w * total - exact_times_total
  IN 2 * (IF diff < 0 THEN -diff ELSE diff) <= total

\* C4: after record_lead_feedback completes, for every industry with at least
\* one feedback event on its leads the weight store holds under
\* industry_<industry> the value round(0.85 + 0.35 * accepted/total, 2), where
\* accepted counts the outcomes Assigned, Accepted, Converted and every other
\* outcome counts in total only; 3 accepted of 4 give 1.11.
C4_WeightAfterFeedback ==
  /\ AdapterWeight(3, 4) = 111
  /\ last.op = "record_lead_feedback" =>
       \A i \in 1..Len(leads) :
          LET industry == leads[i].industry
              total == Cardinality(EventsOn(industry))
              accepted == Cardinality(AcceptedOn(industry))
          IN total >= 1 =>
               /\ IndustryKey(industry) \in DOMAIN scoring_weights
               /\ IsRounded(scoring_weights[IndustryKey(industry)], accepted, total)

\* Three events on Marine leads, two of them accepted: 0.85 + 0.35 * 2/3 = 1.08.
C4_Witness ==
  /\ last.op = "record_lead_feedback"
  /\ Cardinality(EventsOn("Marine")) = 3
  /\ Cardinality(AcceptedOn("Marine")) = 2
  /\ \E i \in EventsOn("Marine") : lead_feedback[i].outcome = "Rejected"
  /\ scoring_weights["industry_Marine"] = 108

\* C5: a key absent from the weight store counts as 1.0: with an empty store a
\* text gets the score, confidence and priority it gets with every key stored
\* as 1.0.
C5_AbsentKeyIsOne ==
  (Analysed /\ scoring_weights = EmptyWeights) =>
     \A stored \in {analyze_and_score(last.raw_text, AllOnes, HIGH_PRIORITY_THRESHOLD,
                                      MEDIUM_PRIORITY_THRESHOLD, spacy_orgs, spacy_nlp)} :
        /\ LastResult.score = stored.score
        /\ LastResult.confidence = stored.confidence
        /\ LastResult.priority = stored.priority

\* A text with all four weighted bonuses, scored against the empty store.
C5_Witness ==
  /\ Analysed
  /\ scoring_weights = EmptyWeights
  /\ last.raw_text = <<"Cement", "expansion", "tender", "fuel", "supply">>
  /\ LastResult.score >= 90

\* C6: running _update_weights_from_feedback twice in a row over the same
\* feedback log leaves the weight store with the keys and weights of one run.
C6_RecomputeIdempotent ==
  \A once \in {_update_weights_from_feedback(scoring_weights, leads, lead_feedback)} :
     _update_weights_from_feedback(once, leads, lead_feedback) = once

\* A store that a recomputation changes: feedback recorded for a lead id before
\* the lead was discovered, so that one run writes a key the store lacks.
C6_Witness ==
  /\ scoring_weights # _update_weights_from_feedback(scoring_weights, leads, lead_feedback)
  /\ \E i \in 1..Len(leads) : Cardinality(EventsOn(leads[i].industry)) >= 2

\* The weight keys whose bonus applies to a text with features f.
AppliedKeys(f) ==
  (IF f.first_signal # 0 THEN {SignalKey(PROCUREMENT_SIGNALS[f.first_signal])} ELSE {})
    \cup (IF f.expansion THEN {"signal_expansion"} ELSE {})
    \cup (IF f.tender THEN {"signal_tender"} ELSE {})
    \cup (IF f.industry # "Unknown" THEN {ScorerIndustryKey(f.industry)} ELSE {})

\* C7: for a fixed text, raising one weight whose bonus applies to the text,
\* all other weights fixed, never decreases the score total before clamping.
\* Each step of one hundredth is checked, over the whole range of weights.
C7_Monotone ==
  Analysed =>
    \A f \in {FeaturesOf(last.raw_text, spacy_orgs, spacy_nlp)} :
       \A key \in AppliedKeys(f) :
          \A v \in WeightValues \ {120} :
             ScoreSum(f, Upsert(scoring_weights, key, v))
               <= ScoreSum(f, Upsert(scoring_weights, key, v + 1))

\* A text with an applied weight whose rise from 0.85 to 1.20 raises the total.
C7_Witness ==
  /\ Analysed
  /\ \E f \in {FeaturesOf(last.raw_text, spacy_orgs, spacy_nlp)} :
       \E key \in AppliedKeys(f) :
          ScoreSum(f, Upsert(scoring_weights, key, 85))
            < ScoreSum(f, Upsert(scoring_weights, key, 120))

\* C8: detect_industry returns a non-empty product list for every input, the
\* empty string and a text without a keyword hit included: industry Unknown
\* gets the default list ["Industrial Fuels"].
C8_ProductsNonEmpty ==
  Analysed =>
    \A detected \in {detect_industry(last.raw_text)} :
       /\ detected.products # <<>>
       /\ detected.industry = "Unknown" => detected.products = <<"Industrial Fuels">>
       /\ LastResult.industry = detected.industry
       /\ LastResult.product_recommendations = detected.products

\* The empty string: no keyword hit, industry Unknown, the default list.
C8_Witness ==
  /\ Analysed
  /\ last.raw_text = <<>>
  /\ LastResult.industry = "Unknown"
  /\ LastResult.product_recommendations = <<"Industrial Fuels">>

CementScenario == <<"Cement", "expansion", "tender", "fuel", "supply">>

\* The scenario's call: the text scored with every weight at 1.0 (stored, or
\* absent) and the default thresholds.
CementScenarioScored ==
  /\ Analysed
  /\ last.raw_text = CementScenario
  /\ scoring_weights \in {EmptyWeights, AllOnes}
  /\ HIGH_PRIORITY_THRESHOLD = HIGH_PRIORITY_THRESHOLD_DEFAULT
  /\ MEDIUM_PRIORITY_THRESHOLD = MEDIUM_PRIORITY_THRESHOLD_DEFAULT

CementScenarioBonuses ==
  \A f \in {FeaturesOf(CementScenario, spacy_orgs, spacy_nlp)} :
     /\ f.industry = "Cement"
     /\ TenderBonus(f, scoring_weights) = 20
     /\ ExpansionBonus(f, scoring_weights) = 25
     /\ IndustryBonus(f, scoring_weights) = 30

\* C10, as stated: "Cement expansion tender fuel supply" with all weights at
\* 1.0 and the default thresholds is classified Cement, gets the tender (+20),
\* expansion (+25) and industry (+30) bonuses, a score that clamps to 100, and
\* priority HIGH.
C10_AsStated ==
  CementScenarioScored =>
    /\ LastResult.industry = "Cement"
    /\ CementScenarioBonuses
    /\ ScoreTotal(CementScenario, scoring_weights, spacy_orgs, spacy_nlp) >= 100
    /\ LastResult.score = 100
    /\ LastResult.priority = "HIGH"

\* C10, amended: the scenario is classified Cement, gets the tender (+20),
\* expansion (+25) and industry (+30) bonuses and priority HIGH; its total is
\* 15 + 25 + 20 + 30 + 3 + 6 = 99, below the clamp, when the NER step finds no
\* organisation in the text, and 101, clamped to 100, when it finds one.
C10_CementScenario ==
  CementScenarioScored =>
    /\ LastResult.industry = "Cement"
    /\ CementScenarioBonuses
    /\ ScoreTotal(CementScenario, scoring_weights, spacy_orgs, spacy_nlp)
         = IF Range(CementScenario) \cap spacy_orgs = {} THEN 99 ELSE 101
    /\ LastResult.score = IF Range(CementScenario) \cap spacy_orgs = {} THEN 99 ELSE 100
    /\ LastResult.priority = "HIGH"

\* The scenario scored where no NER model is installed: score 99.
C10_Witness ==
  CementScenarioScored /\ spacy_orgs = {} /\ LastResult.score = 99

\* No procurement keyword occurs in the lowered text (scoring.py, lines 69-79).
NoProcurementKeyword(raw_text) ==
  \A i \in 1..Len(PROCUREMENT_SIGNALS) :
     ~KwIn(PROCUREMENT_SIGNALS[i], LowerText(raw_text))

\* No keyword of any industry occurs in the text.
NoIndustryKeyword(text) ==
  \A i \in 1..Len(INDUSTRY_SIGNALS) : Hits(INDUSTRY_SIGNALS[i].keywords, text) = 0

HelloWorld == <<"Hello", "world">>

ScoringFields(row) ==
  [ score |-> row.score, confidence |-> row.confidence, priority |-> row.priority,
    intent_score |-> row.intent_score, industry |-> row.industry,
    product_recommendations |-> row.product_recommendations ]

\* C12: the scoring fields of a stored lead are a frozen snapshot: no step of the
\* program (assign, reject, convert, PATCH status, webhook reply, each with its
\* weight recomputation, or a discovery run) changes the score, confidence,
\* priority, intent_score, industry or product_recommendations of a lead already
\* stored; of its other fields only status and assigned officer change.
C12_ScoringFieldsFrozen ==
  [][ \A i \in 1..Len(leads) :
        /\ i <= Len(leads')
        /\ ScoringFields(leads'[i]) = ScoringFields(leads[i])
        /\ leads'[i] = [leads[i] EXCEPT !.status = leads'[i].status,
                                        !.assigned_officer_id = leads'[i].assigned_officer_id]
    ]_vars

\* A lead that received feedback, whose stored score is no longer the score its
\* text gets under the weights recomputed since.
C12_Witness ==
  \E i \in 1..Len(leads) :
     /\ leads[i].status # "New"
     /\ last.op = "record_lead_feedback"
     /\ IndustryKey(leads[i].industry) \in DOMAIN scoring_weights
     /\ leads[i].score #
          analyze_and_score(leads[i].raw_text, scoring_weights, HIGH_PRIORITY_THRESHOLD,
                            MEDIUM_PRIORITY_THRESHOLD, spacy_orgs, spacy_nlp).score

\* C13: the feedback log is append-only: every record_lead_feedback call adds
\* exactly one event, the one it was called with, at the end of the log; every
\* other step leaves the log as it is; so the log after a step extends the log
\* before it, and no event is ever modified or deleted.
C13_FeedbackAppendOnly ==
  [][ /\ Len(lead_feedback') >= Len(lead_feedback)
      /\ SubSeq(lead_feedback', 1, Len(lead_feedback)) = lead_feedback
      /\ IF last'.op = "record_lead_feedback"
         THEN lead_feedback' =
                Append(lead_feedback, [lead_id |-> last'.lead_id, outcome |-> last'.outcome])
         ELSE lead_feedback' = lead_feedback
    ]_vars

\* A log in which two events reference the same lead, the later one just recorded.
C13_Witness ==
  /\ last.op = "record_lead_feedback"
  /\ Len(lead_feedback) >= 2
  /\ lead_feedback[Len(lead_feedback)].lead_id = last.lead_id
  /\ \E i \in 1..(Len(lead_feedback) - 1) :
        /\ lead_feedback[i].lead_id = last.lead_id
        /\ lead_feedback[i].outcome # last.outcome

\* A call of analyze_and_score has ended, with a result or with an exception.
AnalyseCalled ==
  last.op \in {"analyze_and_score", "analyze_and_score raised AttributeError"}

\* C14 as stated: for raw text that is empty or not a string (None),
\* analyze_and_score returns a result whose derived fields are the defaults
\* (industry Unknown, no requirement clue, score 0) and raises no error.
C14_AsStated ==
  (AnalyseCalled /\ last.raw_text \in {<<>>} \cup NonStrings)
  => /\ Analysed
     /\ LastResult.industry = "Unknown"
     /\ LastResult.requirement_clues = <<>>
     /\ LastResult.score = 0

\* The part of C14 the code satisfies: the empty string yields the defaults.
C14_EmptyString ==
  (Analysed /\ last.raw_text = <<>>)
  => /\ LastResult.industry = "Unknown"
     /\ LastResult.requirement_clues = <<>>
     /\ LastResult.score = 0

StoreUnreadable == last.op = "analyze_and_score, weight store unreadable"

\* C15: when reading the stored weights raises, analyze_and_score still returns
\* a result, and the result equals the one computed with weight 1.0 for every
\* key, whatever the store holds.
C15_StoreUnavailable ==
  StoreUnreadable
  => /\ Len(last.results) = 1
     /\ LastResult = analyze_and_score(last.raw_text, AllOnes, HIGH_PRIORITY_THRESHOLD,
                                       MEDIUM_PRIORITY_THRESHOLD, spacy_orgs, FALSE)

\* A text scored without the store while the store holds weights under which
\* its score would have been another.
C15_Witness ==
  /\ StoreUnreadable
  /\ scoring_weights = Uniform(120)
  /\ LastResult.score > 0
  /\ LastResult.score #
       analyze_and_score(last.raw_text, scoring_weights, HIGH_PRIORITY_THRESHOLD,
                         MEDIUM_PRIORITY_THRESHOLD, spacy_orgs, FALSE).score

\* C16: when the feedback source is unavailable at a recomputation (the db layer
\* was not imported, or reading the feedback log raises), the recomputation is a
\* no-op: the call completes and every weight store entry is as it was.
C16_UnavailableIsNoOp ==
  [][ last'.op \in FaultyRuns => scoring_weights' = scoring_weights ]_vars

\* A call whose log could not be read, made when the store held an entry that a
\* recomputation over the log would have replaced.
C16_Witness ==
  /\ last.op = "record_lead_feedback, feedback log unreadable"
  /\ scoring_weights # EmptyWeights
  /\ scoring_weights # _update_weights_from_feedback(scoring_weights, leads, lead_feedback)

\* The industries that have a feedback event on one of their leads.
IndustriesWithEvents ==
  {leads[i].industry : i \in {j \in 1..Len(leads) : EventsOn(leads[j].industry) # {}}}

\* C17 as stated: every weight written lies in [0.85, 1.20], and is 0.85 exactly
\* when no event of its group is accepted-type and 1.20 exactly when all are.
C17_AsStated ==
  \A industry \in IndustriesWithEvents :
     LET w == scoring_weights[IndustryKey(industry)]
         total == Cardinality(EventsOn(industry))
         accepted == Cardinality(AcceptedOn(industry))
     IN /\ 85 <= w /\ w <= 120
        /\ (w = 85) <=> (accepted = 0)
        /\ (w = 120) <=> (accepted = total)

\* C17: every weight the adapter has written lies in [0.85, 1.20]; it is 0.85
\* whenever no event of its group is accepted-type and 1.20 whenever all are,
\* single-event groups included; and for a group of fewer than 70 events it is
\* 0.85 only when none is accepted-type and 1.20 only when all are.
C17_WeightRange ==
  /\ \A key \in DOMAIN scoring_weights :
        85 <= scoring_weights[key] /\ scoring_weights[key] <= 120
  /\ \A industry \in IndustriesWithEvents :
        LET w == scoring_weights[IndustryKey(industry)]
            total == Cardinality(EventsOn(industry))
            accepted == Cardinality(AcceptedOn(industry))
        IN /\ accepted = 0 => w = 85
           /\ accepted = total => w = 120
           /\ total < 70 => /\ w = 85 => accepted = 0
                            /\ w = 120 => accepted = total

\* A single-event group at 1.20 beside a group of many events, not all of them
\* accepted-type, strictly inside the range.
C17_Witness ==
  /\ last.op = "record_lead_feedback"
  /\ Cardinality(EventsOn("Marine")) = 1
  /\ scoring_weights["industry_Marine"] = 120
  /\ Cardinality(EventsOn("Cement")) > 60
  /\ scoring_weights["industry_Cement"] \in 86..119

\* C18 as stated: discovery never inserts an item whose canonical company name
\* and text match a stored lead, so no two stored leads have the same canonical
\* company name and the same text, however often run_discovery runs over the
\* same items.
C18_AsStated ==
  \A i, j \in 1..Len(leads) :
     i # j => <<LowerText(leads[i].company), LowerText(leads[i].raw_text)>>
                # <<LowerText(leads[j].company), LowerText(leads[j].raw_text)>>

\* The part of C18 the code satisfies: an item whose name one pass of
\* normalize_company_name brings to a fixed point is stored at most once.
C18_FixedPointNames ==
  \A i, j \in 1..Len(leads) :
     (/\ i # j
      /\ normalize_company_name(leads[i].company) = leads[i].company
      /\ leads[i].company # <<"Unknown">>)
     => <<LowerText(leads[i].company), LowerText(leads[i].raw_text)>>
          # <<LowerText(leads[j].company), LowerText(leads[j].raw_text)>>

\* C19: the loop closes on the next scoring call: whenever analyze_and_score
\* classifies a text as an industry X other than Unknown for which feedback has
\* been recorded (and the weights recomputed by record_lead_feedback), its
\* industry bonus is int(30 * w) for w the weight the adapter computed from the
\* events of X, round(0.85 + 0.35 * accepted/total, 2), found under the key
\* industry_X the adapter wrote.
C19_LoopCloses ==
  /\ \A i \in 1..Len(INDUSTRY_SIGNALS) :
        IndustryKey(INDUSTRY_SIGNALS[i].name) = ScorerIndustryKey(INDUSTRY_SIGNALS[i].name)
  /\ Analysed =>
    LET r == LastResult
        f == FeaturesOf(last.raw_text, spacy_orgs, spacy_nlp)
        total == Cardinality(EventsOn(r.industry))
        accepted == Cardinality(AcceptedOn(r.industry))
    IN (r.industry # "Unknown" /\ total >= 1)
       => /\ ScorerIndustryKey(r.industry) \in DOMAIN scoring_weights
          /\ r.score = ClampScore(ProcurementBonus(f, scoring_weights)
                                    + ExpansionBonus(f, scoring_weights)
                                    + TenderBonus(f, scoring_weights)
                                    + Bonus(30, AdapterWeight(accepted, total))
                                    + f.boost + (f.intent_score \div 10))

\* A Cement text scored after a rejection of the Cement lead: its industry bonus
\* is int(30 * 0.85) = 25, and its score differs from the stored lead's.
C19_Witness ==
  /\ Analysed
  /\ LastResult.industry = "Cement"
  /\ Cardinality(EventsOn("Cement")) = 1
  /\ Cardinality(AcceptedOn("Cement")) = 0
  /\ scoring_weights["industry_Cement"] = 85
  /\ IndustryBonus(FeaturesOf(last.raw_text, spacy_orgs, spacy_nlp), scoring_weights) = 25
  /\ last.raw_text = leads[1].raw_text
  /\ LastResult.score < leads[1].score

\* Python's round(base * w) for the float w = k/100: the integer nearest to the
\* double product, a product that lies halfway going to the even neighbour.
RoundedProduct(base, k) ==
  IF <<base, k>> \in { <<15, 110>>, <<25, 90>>, <<25, 98>>, <<25, 106>>, <<25, 114>>,
                       <<30, 95>>, <<30, 115>> }
  THEN (base * k) \div 100
  ELSE (base * k + 50) \div 100

\* The accumulated score were each weighted bonus the rounded product.
RoundedSum(f, weights) ==
  (IF f.first_signal = 0 THEN 0
   ELSE RoundedProduct(15, WeightGet(weights, SignalKey(PROCUREMENT_SIGNALS[f.first_signal]))))
  + (IF f.expansion THEN RoundedProduct(25, WeightGet(weights, "signal_expansion")) ELSE 0)
  + (IF f.tender THEN RoundedProduct(20, WeightGet(weights, "signal_tender")) ELSE 0)
  + (IF f.industry # "Unknown"
     THEN RoundedProduct(30, WeightGet(weights, ScorerIndustryKey(f.industry))) ELSE 0)
  + f.boost + (f.intent_score \div 10)

\* C20 as stated: each weighted bonus added to the score is the rounded product
\* of its base points and its weight, round(15 * w), round(25 * w), round(20 * w)
\* and round(30 * w), for every weight from 0.85 to 1.20 in steps of 0.01.
C20_AsStated ==
  Analysed =>
    LastResult.score =
      ClampScore(RoundedSum(FeaturesOf(last.raw_text, spacy_orgs, spacy_nlp),
                            scoring_weights))

\* What the code computes: each weighted bonus is the product truncated toward
\* zero, int(base * w), so it never exceeds the rounded product and falls short
\* of it by at most 1.
C20_Truncated ==
  \A base \in {15, 20, 25, 30}, k \in WeightValues :
     /\ Bonus(base, k) <= RoundedProduct(base, k)
     /\ RoundedProduct(base, k) <= Bonus(base, k) + 1
     /\ Bonus(base, k) * 100 <= base * k

\* The procurement signals that occur in the lowered text, by list index.
SignalsPresent(raw_text) ==
  {i \in 1..Len(PROCUREMENT_SIGNALS) : KwIn(PROCUREMENT_SIGNALS[i], LowerText(raw_text))}

\* C21: at most one procurement-signal bonus is added per text: it is int(15 * w)
\* for w the weight under signal_<s> of the signal s that comes first in
\* PROCUREMENT_SIGNALS among those present; the signals after it add nothing;
\* the expansion and the tender bonus are added whenever their own triggers are
\* present, whichever procurement signal matched.
C21_OneProcurementBonus ==
  Analysed =>
    \A n \in 1..Len(last.results) :
       LET present == SignalsPresent(last.raw_text)
           first == CHOOSE i \in present : \A j \in present : i <= j
           f == FeaturesOf(last.raw_text, spacy_orgs, spacy_nlp)
           procurement ==
             IF present = {} THEN 0
             ELSE Bonus(15, WeightGet(scoring_weights, SignalKey(PROCUREMENT_SIGNALS[first])))
           expansion ==
             IF ExpansionHit(LowerText(last.raw_text))
             THEN Bonus(25, WeightGet(scoring_weights, "signal_expansion")) ELSE 0
           tender ==
             IF TenderHit(LowerText(last.raw_text))
             THEN Bonus(20, WeightGet(scoring_weights, "signal_tender")) ELSE 0
       IN last.results[n].score =
            ClampScore(procurement + expansion + tender
                         + IndustryBonus(f, scoring_weights)
                         + f.boost + (f.intent_score \div 10))

\* A text holding "tender" (first in the list) and "supply" (sixth), scored
\* against a store whose only entry is signal_supply = 1.20: the bonus is 15.
C21_Witness ==
  /\ Analysed
  /\ last.raw_text = <<"supply", "tender">>
  /\ SignalsPresent(last.raw_text) = {1, 6}
  /\ DOMAIN scoring_weights = {"signal_supply"}
  /\ scoring_weights["signal_supply"] = 120
  /\ ProcurementBonus(FeaturesOf(last.raw_text, spacy_orgs, spacy_nlp), scoring_weights) = 15

\* Catalogue positions of the specific verticals (all but General Industrial).
SpecificVerticals ==
  {i \in 1..Len(INDUSTRY_SIGNALS) : INDUSTRY_SIGNALS[i].name # "General Industrial"}

\* Keyword hits of the vertical at catalogue position i in the text that
\* detect_industry matches against.
HitsOf(i, raw_text) == Hits(INDUSTRY_SIGNALS[i].keywords, DetectText(raw_text))

\* C22: detect_industry picks the specific vertical with the greatest keyword-hit
\* count; among verticals that tie for the greatest count the one first in
\* catalogue order (Cement, Marine, Construction / Roads, Power / Utilities,
\* Refinery / Petrochemical, Mining / Steel, Aviation) wins.
C22_GreatestCountFirstWins ==
  /\ [i \in 1..7 |-> INDUSTRY_SIGNALS[i].name] =
       << "Cement", "Marine", "Construction / Roads", "Power / Utilities",
          "Refinery / Petrochemical", "Mining / Steel", "Aviation" >>
  /\ SpecificVerticals = 1..7
  /\ (Analysed /\ \E i \in SpecificVerticals : HitsOf(i, last.raw_text) > 0)
     => \E m \in SpecificVerticals :
           /\ LastResult.industry = INDUSTRY_SIGNALS[m].name
           /\ \A j \in SpecificVerticals :
                 /\ HitsOf(j, last.raw_text) <= HitsOf(m, last.raw_text)
                 /\ j < m => HitsOf(j, last.raw_text) < HitsOf(m, last.raw_text)

\* "airport" holds one Marine keyword ("port") and one Aviation keyword
\* ("airport"): the tie goes to Marine, the earlier of the two.
C22_Witness ==
  /\ Analysed
  /\ last.raw_text = <<"airport">>
  /\ HitsOf(2, last.raw_text) = 1
  /\ HitsOf(7, last.raw_text) = 1
  /\ \A j \in SpecificVerticals : HitsOf(j, last.raw_text) <= 1
  /\ LastResult.industry = "Marine"

\* General Industrial keyword hits in the text detect_industry matches against.
GeneralHits(raw_text) == Hits(GeneralKeywords, DetectText(raw_text))

\* C23: General Industrial is only a fallback: detect_industry returns it exactly
\* when every specific vertical has zero keyword hits and at least one General
\* Industrial keyword is present; one hit of a specific vertical wins over any
\* number of General Industrial hits.
C23_GeneralIsFallback ==
  Analysed =>
    /\ (LastResult.industry = "General Industrial")
         <=> (/\ \A i \in SpecificVerticals : HitsOf(i, last.raw_text) = 0
              /\ GeneralHits(last.raw_text) > 0)
    /\ (\E i \in SpecificVerticals : HitsOf(i, last.raw_text) > 0)
         => \E m \in SpecificVerticals : LastResult.industry = INDUSTRY_SIGNALS[m].name

\* "industrial supply airport": two General Industrial keywords, one keyword of
\* Marine ("port"): the specific vertical is returned.
C23_Witness ==
  /\ Analysed
  /\ last.raw_text = <<"industrial", "supply", "airport">>
  /\ GeneralHits(last.raw_text) = 2
  /\ \A i \in SpecificVerticals : HitsOf(i, last.raw_text) <= 1
  /\ LastResult.industry = "Marine"

\* No keyword of any vertical, General Industrial included, occurs in the text.
NoVerticalKeyword(text) ==
  \A i \in 1..Len(INDUSTRY_SIGNALS) : Hits(INDUSTRY_SIGNALS[i].keywords, text) = 0

OpenRecomputes == {d \in DOMAIN calls : TxnOpen(d)}

\* The table as it is stored once the recompute of call d has committed.
StoredAfter(d) == UpsertGroups(scoring_weights, calls[d].rows, 1)

\* Call c runs _get_weights in this step.
ReadsWeights(c) ==
  /\ c \in DOMAIN calls
  /\ calls[c].pc = "_get_weights"
  /\ c \in DOMAIN calls'
  /\ calls'[c].pc = "score"

Suggested == last.op = "_suggest_actions"

\* C26: the suggested actions are a fixed template of the priority: HIGH gives
\* the two urgent-contact actions, MEDIUM the two near-term actions, any other
\* priority the single nurture action; in every case exactly one final line is
\* appended, naming at most the first 3 recommended products.
C26_ActionsTemplate ==
  Suggested =>
    LET call == LastResult
        actions == call.actions
        n == Len(actions)
        fixed == [i \in 1..(n - 1) |-> actions[i].text]
    IN /\ n >= 2
       /\ fixed = (CASE call.priority = "HIGH" ->
                          << "Contact within 24-48 hours with product sheet",
                             "Prepare quote for primary product(s)" >>
                     [] call.priority = "MEDIUM" ->
                          << "Reach out this week; share case studies",
                             "Identify decision-maker" >>
                     [] OTHER -> << "Add to nurture list; periodic check" >>)
       /\ \A i \in 1..(n - 1) : actions[i].products = <<>>
       /\ actions[n].text = "Highlight HPCL capability in:"
       /\ Len(actions[n].products) <= 3
       /\ \A j \in 1..Len(actions[n].products) : actions[n].products[j] = call.products[j]
       /\ Len(actions[n].products) = Len(call.products) \/ Len(actions[n].products) = 3

\* A priority that is neither HIGH nor MEDIUM with four products: the nurture
\* action, then the line naming the first three.
C26_Witness ==
  /\ Suggested
  /\ LastResult.priority = "high"
  /\ Len(LastResult.products) = 4
  /\ Len(LastResult.actions) = 2
  /\ LastResult.actions[2].products = SubSeq(LastResult.products, 1, 3)

\* The positions in the feedback log of the events of lead i.
EventsOf(i) == {n \in 1..Len(lead_feedback) : lead_feedback[n].lead_id = i}

\* The highest position in a non-empty set of positions.
Latest(positions) == CHOOSE n \in positions : \A o \in positions : o <= n

\* C27: after any sequence and any interleaving of assign, reject, convert,
\* PATCH-status and webhook button-reply requests, once every request has
\* completed, the status of each existing lead is the outcome of the most
\* recently recorded feedback event for that lead, and is New when the lead has
\* no feedback event.
C27_StatusIsLastOutcome ==
  calls = NoCalls =>
    \A i \in 1..Len(leads) :
       leads[i].status = IF EventsOf(i) = {} THEN "New"
                         ELSE lead_feedback[Latest(EventsOf(i))].outcome

\* Two requests on one lead have completed, the one that called
\* update_lead_status first recorded its event before the other did and
\* returned last; the status is the other's outcome.
C27_Witness ==
  /\ calls = NoCalls
  /\ Len(lead_feedback) = 2
  /\ lead_feedback[1].lead_id = lead_feedback[2].lead_id
  /\ lead_feedback[1].lead_id \in 1..Len(leads)
  /\ lead_feedback[1].outcome = "Assigned"
  /\ lead_feedback[2].outcome = "Rejected"
  /\ last.outcome = "Assigned"
  /\ leads[lead_feedback[1].lead_id].status = "Rejected"
  /\ \E j \in 1..Len(leads) : EventsOf(j) = {} /\ leads[j].status = "New"

\* C28 as stated: when two record_lead_feedback calls interleave, once both
\* have completed every industry weight equals round(0.85 + 0.35 * accepted /
\* total, 2) computed over the complete feedback log; a recompute based on an
\* older read of the log never overwrites the result of a newer one.
C28_AsStated ==
  (calls = NoCalls /\ Len(lead_feedback) = 2) =>
    LET rows == get_feedback_for_weights(leads, lead_feedback)
    IN \A n \in 1..Len(rows) :
          WeightGet(scoring_weights, IndustryKey(GroupOf(rows[n])))
            = AdapterWeight(GroupAccepted(rows, GroupOf(rows[n])),
                            GroupTotal(rows, GroupOf(rows[n])))

\* The keys the scorer reads a signal weight under.
SignalKeys ==
  {SignalKey(PROCUREMENT_SIGNALS[i]) : i \in 1..Len(PROCUREMENT_SIGNALS)}
    \cup {"signal_expansion", "signal_tender"}

\* The keys industry_<group> of the groups that have at least one event in the
\* log as the recompute reads it.
GroupKeys ==
  {IndustryKey(GroupOf(r)) : r \in Range(get_feedback_for_weights(leads, lead_feedback))}

\* The score of the last call is built from the unweighted signal bonuses 15, 25
\* and 20.
UnweightedSignalBonuses ==
  LET f == FeaturesOf(last.raw_text, spacy_orgs, spacy_nlp)
  IN LastResult.score
       = ClampScore((IF f.first_signal # 0 THEN 15 ELSE 0)
                      + (IF f.expansion THEN 25 ELSE 0)
                      + (IF f.tender THEN 20 ELSE 0)
                      + IndustryBonus(f, scoring_weights) + f.boost
                      + (f.intent_score \div 10))

\* C29: the recompute writes only keys industry_<group> for groups having at
\* least one event and leaves every other entry of the store untouched; no
\* operation creates or changes a signal_* key, so from an empty store the
\* procurement, expansion and tender bonuses stay exactly 15, 25 and 20 after
\* any feedback history.
C29_RecomputeFrame ==
  [][/\ \A k \in (DOMAIN scoring_weights \cup DOMAIN scoring_weights') \ GroupKeys' :
          /\ k \in DOMAIN scoring_weights
          /\ k \in DOMAIN scoring_weights'
          /\ scoring_weights'[k] = scoring_weights[k]
     /\ GroupKeys' \cap SignalKeys = {}
     /\ (last'.op = "analyze_and_score" /\ DOMAIN scoring_weights' \cap SignalKeys = {})
          => UnweightedSignalBonuses']_vars

\* After feedback on both leads, a store that held signal and industry rows
\* still holds them unchanged beside the two written keys.
C29_Witness ==
  /\ last.op = "record_lead_feedback"
  /\ GroupKeys = {"industry_Cement", "industry_Unknown"}
  /\ DOMAIN scoring_weights = DOMAIN PreloadedWeights \cup {"industry_Cement"}
  /\ \A k \in DOMAIN PreloadedWeights \ GroupKeys : scoring_weights[k] = PreloadedWeights[k]
  /\ scoring_weights["industry_Unknown"] # PreloadedWeights["industry_Unknown"]

\* From an empty store, after three feedback events, the seed text scores with
\* bonuses 15, 25 and 20.
C29_WitnessFromEmpty ==
  /\ Analysed
  /\ Len(lead_feedback) = MaxFeedback
  /\ DOMAIN scoring_weights = {"industry_Cement"}
  /\ last.raw_text = SeedSamples[1].raw_text
  /\ ProcurementBonus(FeaturesOf(last.raw_text, spacy_orgs, spacy_nlp), scoring_weights) = 15
  /\ ExpansionBonus(FeaturesOf(last.raw_text, spacy_orgs, spacy_nlp), scoring_weights) = 25
  /\ TenderBonus(FeaturesOf(last.raw_text, spacy_orgs, spacy_nlp), scoring_weights) = 20

\* The feedback rows, as the recompute reads them, of leads whose industry is
\* Unknown or absent.
UnknownRows ==
  SelectSeq(get_feedback_for_weights(leads, lead_feedback),
            LAMBDA r : r.industry \in {"Unknown", ""})

\* C30: feedback on leads whose industry is Unknown or absent is aggregated
\* under industry_Unknown, and that weight never influences a score: for every
\* text classified Unknown the industry bonus is 0 whatever industry_Unknown
\* holds.
C30_UnknownWeightUnused ==
  /\ GroupOf([industry |-> "", outcome |-> "Rejected"]) = "Unknown"
  /\ (last.op = "record_lead_feedback" /\ UnknownRows # <<>>)
       => /\ "industry_Unknown" \in DOMAIN scoring_weights
          /\ scoring_weights["industry_Unknown"]
               = AdapterWeight(
                   Cardinality({n \in 1..Len(UnknownRows) :
                                  UnknownRows[n].outcome \in AcceptedOutcomes}),
                   Len(UnknownRows))
  /\ (Analysed /\ LastResult.industry = "Unknown")
       => LET f == FeaturesOf(last.raw_text, spacy_orgs, spacy_nlp)
          IN LastResult.score
               = ClampScore(ProcurementBonus(f, scoring_weights)
                              + ExpansionBonus(f, scoring_weights)
                              + TenderBonus(f, scoring_weights)
                              + 0 + f.boost + (f.intent_score \div 10))

\* Feedback on the lead of no industry has stored industry_Unknown = 0.85, and a
\* text classified Unknown is scored without an industry bonus.
C30_Witness ==
  /\ Analysed
  /\ LastResult.industry = "Unknown"
  /\ UnknownRows # <<>>
  /\ "industry_Unknown" \in DOMAIN scoring_weights
  /\ scoring_weights["industry_Unknown"] = 85
  /\ LastResult.score = 0

====
